---- MODULE Spec2Model ----
(***************************************************************************)
(* Model of the qwen-code orchestrator core: the task manifest (task       *)
(* records, dependency graph queries), the task executor, and the session  *)
(* registry with its file-backed state manager.                            *)
(***************************************************************************)
EXTENDS Integers, Sequences, FiniteSets, TLC

VARIABLES
    tasks,      \* tasks directory: task id -> stored task record (one file per task)
    sessions,   \* SessionRegistry.sessions: the Map's session objects in insertion order
    store,      \* sessions directory: session id -> stored session record
    pending,    \* session writes started by handleSessionEvent and not yet on disk
    sessionSeq, \* number of session ids handed out so far
    now,        \* the clock read by new Date() / Date.now()
    res,        \* what the last operation returned to its caller
    disk,       \* record files seen as text: <<directory, id>> -> file content
    backups,    \* the backups directory: one entry per backup file
    config,     \* StateManager.config
    calls,      \* updateTask calls under way: where each one stands
    thinking    \* the thinking traces: the tool's current one and its history,
                \* and the context.sequentialThinking of one session object

vars == <<tasks, sessions, store, pending, sessionSeq, now, res, disk, backups, config, calls, thinking>>
sessionVars == <<sessions, store, pending, sessionSeq>>
diskVars == <<disk, backups, config, calls, thinking>>

(***************************************************************************)
(* Bounds of the model.                                                    *)
(***************************************************************************)
NumTasks == 3
MaxEdges == 2
NumSessions == 3
MaxPending == 1
MaxClock == 2
\* Tasks and sessions created in the specifications of getNextTask, of the
\* executor, of session states and of the session hierarchy.
NextTasks == 3
ExecTasks == 2
ExecSessions == 2
StateSessions == 2
HierarchySessions == 2
\* Tasks created in the specifications of the dependency chain and of
\* checkDependencies.
ChainTasks == 3
FocusSessions == 2
SweepSessions == 2
DepTasks == 2
ProgressTasks == 2      \* tasks created in SpecProgress
RotateRecords == 2      \* task files in SpecRotation
LinkSessions == 3       \* session files found in the store in SpecWalk
MaxPath == 4            \* entries a walk up the parent links may collect
MaxTraces == 2          \* thinking traces the tool creates in SpecThinking
MaxSteps == 3           \* steps one thinking trace may hold
MaxThoughts == 2        \* largest thoughtNumber and totalThoughts handed to the tool
TreeSessions == 3       \* sessions created in SpecTree
WaitSessions == 1       \* sessions created in SpecExecute
StampTasks == 1         \* tasks created in SpecStamps
NumCalls == 2           \* updateTask calls that may be under way together
\* Records saved file by file, and the largest maxBackups configured.
NumRecords == 1
MaxBackups == 2

TaskIds == 1..NumTasks
Orchs == {"orch-1", "orch-2"}

(***************************************************************************)
(* Types (types/task.ts).                                                  *)
(***************************************************************************)
TaskStatus == {"not_started", "in_progress", "completed", "blocked", "cancelled", "failed"}
TaskPriority == {"low", "medium", "high", "critical"}
DependencyType == {"finish_to_start", "start_to_start", "finish_to_finish", "start_to_finish"}

\* undefined / null in an id-valued or time-valued field, and in a string field.
None == 0
Undefined == "undefined"

NoResult == [op |-> "none"]

\* No thinking trace anywhere.
NoTrace == [id |-> None]
NoThinking == [currentSession |-> None, sessionHistory |-> <<>>, created |-> 0,
               sequentialThinking |-> NoTrace, started |-> 0]

(***************************************************************************)
(* Small helpers for JavaScript arrays.                                    *)
(***************************************************************************)
RECURSIVE SeqOfIds(_)
SeqOfIds(S) ==
    IF S = {} THEN <<>>
    ELSE LET m == CHOOSE x \in S : \A y \in S : x <= y
         IN <<m>> \o SeqOfIds(S \ {m})

Range(s) == {s[i] : i \in 1..Len(s)}

\* Array.prototype.indexOf, 0-based, -1 when absent.
IndexOf(s, x) ==
    IF \E i \in 1..Len(s) : s[i] = x
    THEN (CHOOSE i \in 1..Len(s) : s[i] = x /\ \A j \in 1..(i - 1) : s[j] # x) - 1
    ELSE -1

\* Array.prototype.slice(start): a negative start counts from the end.
SliceFrom(s, start) ==
    LET from == IF start < 0 THEN (IF Len(s) + start < 0 THEN 0 ELSE Len(s) + start)
                ELSE start
    IN SubSeq(s, from + 1, Len(s))

(***************************************************************************)
(* TaskManifest (state/TaskManifest.ts).                                   *)
(***************************************************************************)
NewTask(id, params, t) ==
    [id |-> id,
     status |-> "not_started",
     priority |-> IF "priority" \in DOMAIN params THEN params.priority ELSE "medium",
     orchestrationId |-> params.orchestrationId,
     dependencies |-> IF "dependencies" \in DOMAIN params THEN params.dependencies ELSE <<>>,
     completionPercentage |-> 0,
     sessionId |-> None,
     createdAt |-> t,
     startedAt |-> None,
     completedAt |-> None]

\* saveTask: one writeFile of the whole record.
SaveTask(ts, task) == [i \in DOMAIN ts \cup {task.id} |-> IF i = task.id THEN task ELSE ts[i]]

\* loadTask: null when the file is absent.
TaskExists(ts, id) == id \in DOMAIN ts

\* A mutation of UpdatedTask: startedAt is stamped again whenever a status
\* other than not_started is requested.
UpdatedTaskAlwaysStarted(task, params, t) ==
    LET spread == [f \in DOMAIN task |->
                      IF f \in DOMAIN params /\ f # "completionPercentage" THEN params[f] ELSE task[f]]
        progress == IF "completionPercentage" \in DOMAIN params
                    THEN params.completionPercentage ELSE task.completionPercentage
        hasStatus == "status" \in DOMAIN params
        completedAt == IF hasStatus /\ params.status = "completed" /\ task.status # "completed"
                       THEN t ELSE spread.completedAt
        startedAt == IF hasStatus /\ params.status # "not_started"
                     THEN t ELSE spread.startedAt
    IN [spread EXCEPT !.completionPercentage = progress,
                      !.completedAt = completedAt,
                      !.startedAt = startedAt]

\* The record updateTask builds from the loaded task and the params:
\* {...task, ...params, progress, updatedAt}, then the two timestamps.
UpdatedTask(task, params, t) ==
    LET spread == [f \in DOMAIN task |->
                      IF f \in DOMAIN params /\ f # "completionPercentage" THEN params[f] ELSE task[f]]
        progress == IF "completionPercentage" \in DOMAIN params
                    THEN params.completionPercentage ELSE task.completionPercentage
        hasStatus == "status" \in DOMAIN params
        completedAt == IF hasStatus /\ params.status = "completed" /\ task.status # "completed"
                       THEN t ELSE spread.completedAt
        startedAt == IF hasStatus /\ params.status # "not_started" /\ task.status = "not_started"
                     THEN t ELSE spread.startedAt
    IN [spread EXCEPT !.completionPercentage = progress,
                      !.completedAt = completedAt,
                      !.startedAt = startedAt]

\* updateTask returns null for an absent task and never rejects a status.
UpdateTaskStore(ts, id, params, t) ==
    IF TaskExists(ts, id) THEN SaveTask(ts, UpdatedTask(ts[id], params, t)) ELSE ts

TaskMatchesQuery(task, query) ==
    /\ ("orchestrationId" \in DOMAIN query => task.orchestrationId = query.orchestrationId)
    /\ ("status" \in DOMAIN query => task.status = query.status)

CreatedAtCompare(a, b) == b.createdAt - a.createdAt

\* Array.prototype.sort with the createdAt comparator (a stable sort).
RECURSIVE SortByCreatedAt(_)
SortByCreatedAt(s) ==
    IF s = <<>> THEN <<>>
    ELSE LET init == SortByCreatedAt(SubSeq(s, 1, Len(s) - 1))
             x == s[Len(s)]
             p == Cardinality({j \in 1..Len(init) : CreatedAtCompare(init[j], x) <= 0})
         IN SubSeq(init, 1, p) \o <<x>> \o SubSeq(init, p + 1, Len(init))

\* queryTasks: directory scan, load, filter, newest first.
QueryTasks(ts, query) ==
    LET files == SeqOfIds(DOMAIN ts)
        loaded == [i \in 1..Len(files) |-> ts[files[i]]]
    IN SortByCreatedAt(SelectSeq(loaded, LAMBDA task : TaskMatchesQuery(task, query)))

PriorityOrder(p) ==
    CASE p = "critical" -> 4 [] p = "high" -> 3 [] p = "medium" -> 2 [] p = "low" -> 1

\* A mutation of NextTaskCompare: the priority term is reversed.
NextTaskCompareReversed(a, b) ==
    IF Len(a.dependencies) = 0 /\ Len(b.dependencies) > 0 THEN -1
    ELSE IF Len(a.dependencies) > 0 /\ Len(b.dependencies) = 0 THEN 1
    ELSE PriorityOrder(a.priority) - PriorityOrder(b.priority)

\* The comparator of getNextTask.
NextTaskCompare(a, b) ==
    IF Len(a.dependencies) = 0 /\ Len(b.dependencies) > 0 THEN -1
    ELSE IF Len(a.dependencies) > 0 /\ Len(b.dependencies) = 0 THEN 1
    ELSE PriorityOrder(b.priority) - PriorityOrder(a.priority)

RECURSIVE SortForNextTask(_)
SortForNextTask(s) ==
    IF s = <<>> THEN <<>>
    ELSE LET init == SortForNextTask(SubSeq(s, 1, Len(s) - 1))
             x == s[Len(s)]
             p == Cardinality({j \in 1..Len(init) : NextTaskCompare(init[j], x) <= 0})
         IN SubSeq(init, 1, p) \o <<x>> \o SubSeq(init, p + 1, Len(init))

\* getNextTask: the id of the task returned, None for null.
GetNextTask(ts, orchestrationId) ==
    LET found == QueryTasks(ts, [orchestrationId |-> orchestrationId, status |-> "not_started"])
    IN IF Len(found) = 0 THEN None ELSE SortForNextTask(found)[1].id

(***************************************************************************)
(* validateTaskDependencies: invalid references, then a depth-first search *)
(* with a visited set and a recursion stack.  The closure's mutable state  *)
(* (visited, recursionStack, result.cycles) is threaded through as st.     *)
(***************************************************************************)
FindTask(found, taskId) == found[CHOOSE i \in 1..Len(found) : found[i].id = taskId]

TaskIdSet(found) == {found[i].id : i \in 1..Len(found)}

\* A mutation of LeaveTask: the recursion stack is never popped.
LeaveTaskNoPop(st, taskId) == st

\* recursionStack.delete(taskId) after the dependencies were searched.
LeaveTask(st, taskId) == [st EXCEPT !.recursionStack = @ \ {taskId}]

RECURSIVE HasCycle(_, _, _, _)
RECURSIVE SearchDependencies(_, _, _, _, _, _)

HasCycle(found, taskId, path, st) ==
    IF taskId \in st.recursionStack
    THEN [cycle |-> TRUE,
          st |-> [st EXCEPT !.cycles =
                     Append(@, SliceFrom(path, IndexOf(path, taskId)) \o <<taskId>>)]]
    ELSE IF taskId \in st.visited
    THEN [cycle |-> FALSE, st |-> st]
    ELSE LET entered == [st EXCEPT !.visited = @ \cup {taskId},
                                   !.recursionStack = @ \cup {taskId}]
             r == SearchDependencies(found, taskId, FindTask(found, taskId).dependencies,
                                     1, path, entered)
         IN IF r.cycle THEN r ELSE [cycle |-> FALSE, st |-> LeaveTask(r.st, taskId)]

\* The for loop over task.dependencies inside hasCycle, from dependency i on.
SearchDependencies(found, taskId, deps, i, path, st) ==
    IF i > Len(deps) THEN [cycle |-> FALSE, st |-> st]
    ELSE IF deps[i].taskId \in TaskIdSet(found)
    THEN LET r == HasCycle(found, deps[i].taskId, path \o <<taskId>>, st)
         IN IF r.cycle THEN r
            ELSE SearchDependencies(found, taskId, deps, i + 1, path, r.st)
    ELSE SearchDependencies(found, taskId, deps, i + 1, path, st)

\* The for loop over tasks that starts a search at every unvisited task.
RECURSIVE SearchAllTasks(_, _, _, _)
SearchAllTasks(found, i, st, isValid) ==
    IF i > Len(found) THEN [st |-> st, isValid |-> isValid]
    ELSE IF found[i].id \in st.visited
    THEN SearchAllTasks(found, i + 1, st, isValid)
    ELSE LET r == HasCycle(found, found[i].id, <<>>, st)
         IN SearchAllTasks(found, i + 1, r.st, isValid /\ ~r.cycle)

\* The "task -> dependency" pairs whose dependency is not a task of the query.
RECURSIVE InvalidDependencies(_, _)
InvalidDependencies(found, i) ==
    IF i > Len(found) THEN <<>>
    ELSE LET deps == found[i].dependencies
             bad == SelectSeq(deps, LAMBDA d : d.taskId \notin TaskIdSet(found))
         IN [k \in 1..Len(bad) |-> <<found[i].id, bad[k].taskId>>]
            \o InvalidDependencies(found, i + 1)

\* A mutation of ValidateTaskDependencies: an invalid reference does not
\* clear isValid.
ValidateTaskDependenciesCyclesOnly(ts, orchestrationId) ==
    LET found == QueryTasks(ts, [orchestrationId |-> orchestrationId])
        invalid == InvalidDependencies(found, 1)
        search == SearchAllTasks(found, 1,
                      [visited |-> {}, recursionStack |-> {}, cycles |-> <<>>],
                      TRUE)
    IN [isValid |-> search.isValid,
        cycles |-> search.st.cycles,
        invalidDependencies |-> invalid]

ValidateTaskDependencies(ts, orchestrationId) ==
    LET found == QueryTasks(ts, [orchestrationId |-> orchestrationId])
        invalid == InvalidDependencies(found, 1)
        search == SearchAllTasks(found, 1,
                      [visited |-> {}, recursionStack |-> {}, cycles |-> <<>>],
                      invalid = <<>>)
    IN [isValid |-> search.isValid,
        cycles |-> search.st.cycles,
        invalidDependencies |-> invalid]

(***************************************************************************)
(* getTaskExecutionOrder: Kahn's algorithm with an in-degree map.          *)
(***************************************************************************)
\* The two maps after the "build dependency graph" loops: for every task of
\* the query, the dependents recorded under it and its in-degree.
DependencyMap(found) ==
    [id \in TaskIdSet(found) |->
        LET RECURSIVE Dependents(_, _)
            Dependents(i, k) ==
                IF i > Len(found) THEN <<>>
                ELSE IF k > Len(found[i].dependencies) THEN Dependents(i + 1, 1)
                ELSE (IF found[i].dependencies[k].taskId = id THEN <<found[i].id>> ELSE <<>>)
                     \o Dependents(i, k + 1)
        IN Dependents(1, 1)]

\* A mutation of InDegree: no dependency is counted.
InDegreeNone(found) == [id \in TaskIdSet(found) |-> 0]

InDegree(found) ==
    [id \in TaskIdSet(found) |->
        LET deps == FindTask(found, id).dependencies
        IN Cardinality({k \in 1..Len(deps) : deps[k].taskId \in TaskIdSet(found)})]

\* A mutation of ReadyNow: a dependent is queued while one of its
\* dependencies is still to come.
ReadyNowEarly(newDegree) == newDegree \in {0, 1}

\* "if (newDegree === 0) queue.push(dependentId)".
ReadyNow(newDegree) == newDegree = 0

\* The for loop over the dependents of the task just dequeued.
RECURSIVE ProcessDependents(_, _, _, _)
ProcessDependents(dependents, i, inDegree, queue) ==
    IF i > Len(dependents) THEN [inDegree |-> inDegree, queue |-> queue]
    ELSE LET d == dependents[i]
             newDegree == inDegree[d] - 1
         IN ProcessDependents(dependents, i + 1,
                [inDegree EXCEPT ![d] = newDegree],
                IF ReadyNow(newDegree) THEN Append(queue, d) ELSE queue)

\* The while loop over the queue; result holds task ids.
RECURSIVE DrainQueue(_, _, _, _)
DrainQueue(dependencyMap, inDegree, queue, result) ==
    IF queue = <<>> THEN result
    ELSE LET current == Head(queue)
             r == ProcessDependents(dependencyMap[current], 1, inDegree, Tail(queue))
         IN DrainQueue(dependencyMap, r.inDegree, r.queue, Append(result, current))

GetTaskExecutionOrder(ts, orchestrationId) ==
    LET found == QueryTasks(ts, [orchestrationId |-> orchestrationId])
        inDegree == InDegree(found)
        ids == [i \in 1..Len(found) |-> found[i].id]
        queue == SelectSeq(ids, LAMBDA id : inDegree[id] = 0)
    IN DrainQueue(DependencyMap(found), inDegree, queue, <<>>)

\* The edges of getTaskDependencyGraph: one per dependency, task by task.
RECURSIVE GraphEdges(_, _)
GraphEdges(found, i) ==
    IF i > Len(found) THEN <<>>
    ELSE [k \in 1..Len(found[i].dependencies) |->
            [from |-> found[i].dependencies[k].taskId,
             to |-> found[i].id,
             type |-> found[i].dependencies[k].type]]
         \o GraphEdges(found, i + 1)

\* The inner loop of calculateTaskLevels: the dependents of the node taken
\* from the queue, one after the other.  st = [inDegree, level, queue].
RECURSIVE RaiseDependents(_, _, _, _)
RaiseDependents(dependentIds, i, currentLevel, st) ==
    IF i > Len(dependentIds) THEN st
    ELSE LET dependentId == dependentIds[i]
             newDegree == st.inDegree[dependentId] - 1
         IN RaiseDependents(dependentIds, i + 1, currentLevel,
                [inDegree |-> [st.inDegree EXCEPT ![dependentId] = newDegree],
                 level |-> [st.level EXCEPT ![dependentId] =
                               IF @ >= currentLevel + 1 THEN @ ELSE currentLevel + 1],
                 queue |-> IF newDegree = 0 THEN Append(st.queue, dependentId) ELSE st.queue])

\* The while loop of calculateTaskLevels.
RECURSIVE LevelLoop(_, _)
LevelLoop(dependents, st) ==
    IF st.queue = <<>> THEN st
    ELSE LET currentId == Head(st.queue)
         IN LevelLoop(dependents,
                RaiseDependents(dependents[currentId], 1, st.level[currentId],
                                [st EXCEPT !.queue = Tail(@)]))

\* calculateTaskLevels: the level of every node id.  An edge counts for the
\* in-degree of its target whether or not its source is a node; only the
\* edges from a node are ever taken off again.
CalculateTaskLevels(ids, edges) ==
    LET idSet == {ids[i] : i \in 1..Len(ids)}
        inDegree == [id \in idSet |-> Cardinality({k \in 1..Len(edges) : edges[k].to = id})]
        from(id) == SelectSeq(edges, LAMBDA e : e.from = id)
        dependents == [id \in idSet |-> [k \in 1..Len(from(id)) |-> from(id)[k].to]]
        start == [inDegree |-> inDegree,
                  level |-> [id \in idSet |-> 0],
                  queue |-> SelectSeq(ids, LAMBDA id : inDegree[id] = 0)]
    IN LevelLoop(dependents, start).level

GetTaskDependencyGraph(ts, orchestrationId) ==
    LET found == QueryTasks(ts, [orchestrationId |-> orchestrationId])
        ids == [i \in 1..Len(found) |-> found[i].id]
        edges == GraphEdges(found, 1)
        level == CalculateTaskLevels(ids, edges)
    IN [nodes |-> [i \in 1..Len(found) |->
                     [id |-> found[i].id, status |-> found[i].status, level |-> level[found[i].id]]],
        edges |-> edges]

(***************************************************************************)
(* Sessions (types/session.ts, session/OrchestrationSession.ts).           *)
(***************************************************************************)
SessionType == {"planning", "task", "verification", "interactive"}
SessionState == {"active", "completed", "suspended", "failed"}

\* The keys SessionSchema declares; validateSession drops every other key.
SessionFields ==
    {"id", "type", "state", "orchestrationId", "timestamp", "lastActivityAt", "completedAt",
     "failureReason", "parentSessionId", "childSessionIds", "currentFocus"}

\* new OrchestrationSession(params); `listening` tells whether the registry's
\* event listener is attached to the object.
NewSession(id, params, t) ==
    [id |-> id,
     type |-> params.type,
     orchestrationId |-> params.orchestrationId,
     taskId |-> IF "taskId" \in DOMAIN params THEN params.taskId ELSE None,
     timestamp |-> t,
     parentSessionId |-> IF "parentSessionId" \in DOMAIN params THEN params.parentSessionId ELSE None,
     childSessionIds |-> <<>>,
     lastActivityAt |-> t,
     state |-> "active",
     completedAt |-> None,
     failureReason |-> Undefined,
     currentFocus |-> IF "initialFocus" \in DOMAIN params THEN params.initialFocus ELSE "",
     listening |-> FALSE]

\* session.updateState(newState, reason).
UpdatedState(s, newState, reason, t) ==
    [s EXCEPT !.state = newState,
              !.lastActivityAt = t,
              !.completedAt = IF newState = "completed" THEN t ELSE @,
              !.failureReason = IF newState = "failed" THEN reason ELSE @]

UpdatedFocus(s, newFocus, t) == [s EXCEPT !.currentFocus = newFocus, !.lastActivityAt = t]

HasChild(s, childSessionId) == childSessionId \in Range(s.childSessionIds)

AddedChild(s, childSessionId, t) ==
    IF HasChild(s, childSessionId) THEN s
    ELSE [s EXCEPT !.childSessionIds = Append(@, childSessionId), !.lastActivityAt = t]

RemovedChild(s, childSessionId, t) ==
    IF ~HasChild(s, childSessionId) THEN s
    ELSE [s EXCEPT !.childSessionIds = SelectSeq(@, LAMBDA c : c # childSessionId),
                   !.lastActivityAt = t]

\* toJSON followed by validateSession: the record that is written.
ToStored(s) == [f \in SessionFields |-> s[f]]

\* OrchestrationSession.fromJSON: the stored keys, no listener yet.
FromJSON(data) ==
    [f \in SessionFields \cup {"taskId", "listening"} |->
        IF f = "taskId" THEN None ELSE IF f = "listening" THEN FALSE ELSE data[f]]

ValidStateTransition(from, to) ==
    \/ from = to
    \/ from = "active" /\ to \in {"suspended", "completed", "failed"}
    \/ from = "suspended" /\ to \in {"active", "completed", "failed"}
    \/ from = "failed" /\ to \in {"active"}

ValidTaskStatusTransition(from, to) ==
    \/ from = "not_started" /\ to \in {"in_progress", "cancelled"}
    \/ from = "in_progress" /\ to \in {"completed", "blocked", "failed", "cancelled"}
    \/ from = "blocked" /\ to \in {"in_progress", "cancelled"}
    \/ from = "failed" /\ to \in {"in_progress", "cancelled"}
    \/ from = "cancelled" /\ to \in {"not_started"}

(***************************************************************************)
(* StateManager (state/StateManager.ts): the sessions directory.           *)
(***************************************************************************)
\* saveSession when the write succeeds.
SaveSession(st, data) == [i \in DOMAIN st \cup {data.id} |-> IF i = data.id THEN data ELSE st[i]]

SessionStored(st, sessionId) == sessionId \in DOMAIN st

\* deleteSession: unlink; the caller sees an error when the file is absent.
UnlinkSession(st, sessionId) == [i \in DOMAIN st \ {sessionId} |-> st[i]]

\* A query with no criteria.
EmptyQuery == <<>>

SessionMatchesQuery(data, query) ==
    "orchestrationId" \in DOMAIN query => data.orchestrationId = query.orchestrationId

TimestampCompare(a, b) == b.timestamp - a.timestamp

RECURSIVE SortByTimestamp(_)
SortByTimestamp(s) ==
    IF s = <<>> THEN <<>>
    ELSE LET init == SortByTimestamp(SubSeq(s, 1, Len(s) - 1))
             x == s[Len(s)]
             p == Cardinality({j \in 1..Len(init) : TimestampCompare(init[j], x) <= 0})
         IN SubSeq(init, 1, p) \o <<x>> \o SubSeq(init, p + 1, Len(init))

\* StateManager.querySessions: directory scan, load, filter, newest first.
QueryStoredSessions(st, query) ==
    LET files == SeqOfIds(DOMAIN st)
        loaded == [i \in 1..Len(files) |-> st[files[i]]]
    IN SortByTimestamp(SelectSeq(loaded, LAMBDA data : SessionMatchesQuery(data, query)))

(***************************************************************************)
(* SessionRegistry.  Its operations are written as functions of the        *)
(* registry state R = [sessions, store, pending] so that one operation can *)
(* call another; each returns the new state and what the caller sees.      *)
(***************************************************************************)
CacheHas(cache, sessionId) == \E i \in 1..Len(cache) : cache[i].id = sessionId

CacheGet(cache, sessionId) == cache[CHOOSE i \in 1..Len(cache) : cache[i].id = sessionId]

\* Map.set: an existing key keeps its place, a new key goes last.
CacheSet(cache, s) ==
    IF CacheHas(cache, s.id)
    THEN [i \in 1..Len(cache) |-> IF cache[i].id = s.id THEN s ELSE cache[i]]
    ELSE Append(cache, s)

CacheDelete(cache, sessionId) == SelectSeq(cache, LAMBDA s : s.id # sessionId)

\* One more write in flight; when MaxPending are in flight the oldest one
\* reaches the disk first.
StartWrite(R, data) ==
    IF Len(R.pending) < MaxPending
    THEN [R EXCEPT !.pending = Append(@, data)]
    ELSE [R EXCEPT !.store = SaveSession(@, Head(R.pending)),
                   !.pending = Append(Tail(@), data)]

\* handleSessionEvent: find(... || true) yields the first session of the Map,
\* whichever session emitted the event; its save is not awaited by the emitter.
HandleSessionEvent(R) ==
    IF R.sessions = <<>> THEN R ELSE StartWrite(R, ToStored(Head(R.sessions)))

\* The object s was mutated and emitted an event.
Mutated(R, s) ==
    LET R1 == [R EXCEPT !.sessions = CacheSet(@, s)]
    IN IF s.listening THEN HandleSessionEvent(R1) ELSE R1

\* createSession; fail names the save that throws ("none", "session", "parent").
CreateSessionOp(R, id, params, t, fail) ==
    LET session == [NewSession(id, params, t) EXCEPT !.listening = TRUE]
        R1 == [R EXCEPT !.sessions = CacheSet(@, session)]
        R2 == [R1 EXCEPT !.store = SaveSession(@, ToStored(session))]
        linked == session.parentSessionId # None /\ CacheHas(R2.sessions, session.parentSessionId)
        parentSession == CacheGet(R2.sessions, session.parentSessionId)
        withChild == AddedChild(parentSession, id, t)
        R3 == IF withChild = parentSession THEN R2 ELSE Mutated(R2, withChild)
        R4 == [R3 EXCEPT !.store = SaveSession(@, ToStored(withChild))]
    IN IF fail = "session" THEN [R |-> R1, ok |-> FALSE, id |-> id]
       ELSE IF ~linked THEN [R |-> R2, ok |-> TRUE, id |-> id]
       ELSE IF fail = "parent" THEN [R |-> R3, ok |-> FALSE, id |-> id]
       ELSE [R |-> R4, ok |-> TRUE, id |-> id]

\* Whether createSession reaches the save that fail names.
ReachesSave(R, params, fail) ==
    fail = "parent" =>
        /\ "parentSessionId" \in DOMAIN params
        /\ params.parentSessionId # None
        /\ CacheHas(R.sessions, params.parentSessionId)

\* getSession: the Map first, then the store.
GetSessionOp(R, sessionId) ==
    IF CacheHas(R.sessions, sessionId) THEN [R |-> R, found |-> TRUE]
    ELSE IF SessionStored(R.store, sessionId)
    THEN [R |-> [R EXCEPT !.sessions =
                    CacheSet(@, [FromJSON(R.store[sessionId]) EXCEPT !.listening = TRUE])],
          found |-> TRUE]
    ELSE [R |-> R, found |-> FALSE]

\* updateSession; failSave tells whether the final save throws.
UpdateSessionOp(R, sessionId, params, t, failSave) ==
    LET got == GetSessionOp(R, sessionId)
        s0 == CacheGet(got.R.sessions, sessionId)
        reason == IF "failureReason" \in DOMAIN params THEN params.failureReason ELSE Undefined
        s1 == IF "state" \in DOMAIN params THEN UpdatedState(s0, params.state, reason, t) ELSE s0
        R1 == IF "state" \in DOMAIN params THEN Mutated(got.R, s1) ELSE got.R
        s2 == IF "currentFocus" \in DOMAIN params THEN UpdatedFocus(s1, params.currentFocus, t) ELSE s1
        R2 == IF "currentFocus" \in DOMAIN params THEN Mutated(R1, s2) ELSE R1
    IN IF ~got.found THEN [R |-> got.R, outcome |-> "not_found"]
       ELSE IF failSave THEN [R |-> R2, outcome |-> "storage_error"]
       ELSE [R |-> [R2 EXCEPT !.store = SaveSession(@, ToStored(s2))], outcome |-> "updated"]

\* The tail of deleteSession: Map.delete, then the unlink, which throws when
\* the file is absent.
ForgetSession(R, sessionId) ==
    LET R1 == [R EXCEPT !.sessions = CacheDelete(@, sessionId)]
    IN IF SessionStored(R1.store, sessionId)
       THEN [R |-> [R1 EXCEPT !.store = UnlinkSession(@, sessionId)], ok |-> TRUE]
       ELSE [R |-> R1, ok |-> FALSE]

RECURSIVE DeleteSessionOp(_, _, _)
RECURSIVE DeleteChildren(_, _, _, _)

\* deleteSession: unhook the listener, unlink from the parent, delete the
\* children, forget the session.
DeleteSessionOp(R, sessionId, t) ==
    IF ~CacheHas(R.sessions, sessionId) THEN ForgetSession(R, sessionId)
    ELSE LET session == [CacheGet(R.sessions, sessionId) EXCEPT !.listening = FALSE]
             R1 == [R EXCEPT !.sessions = CacheSet(@, session)]
             linked == session.parentSessionId # None
                       /\ CacheHas(R1.sessions, session.parentSessionId)
             parentSession == CacheGet(R1.sessions, session.parentSessionId)
             without == RemovedChild(parentSession, sessionId, t)
             R2 == IF ~linked THEN R1
                   ELSE [(IF without = parentSession THEN R1 ELSE Mutated(R1, without))
                            EXCEPT !.store = SaveSession(@, ToStored(without))]
             children == DeleteChildren(R2, sessionId, 0, t)
         IN IF children.ok THEN ForgetSession(children.R, sessionId) ELSE children

\* "for (const childId of session.childSessionIds)": the array iterator reads
\* index i of the array as it is now, and the array shrinks while the loop
\* runs because deleting a child removes it from this very array.
DeleteChildren(R, sessionId, i, t) ==
    LET array == IF CacheHas(R.sessions, sessionId)
                 THEN CacheGet(R.sessions, sessionId).childSessionIds ELSE <<>>
    IN IF i >= Len(array) THEN [R |-> R, ok |-> TRUE]
       ELSE LET child == DeleteSessionOp(R, array[i + 1], t)
            IN IF child.ok THEN DeleteChildren(child.R, sessionId, i + 1, t) ELSE child

\* SessionRegistry.querySessions: the stored records that match, each one
\* answered by the Map's object when the Map has one.
RECURSIVE CacheLoaded(_, _, _)
CacheLoaded(cache, found, i) ==
    IF i > Len(found) THEN cache
    ELSE CacheLoaded(IF CacheHas(cache, found[i].id) THEN cache
                     ELSE CacheSet(cache, [FromJSON(found[i]) EXCEPT !.listening = TRUE]),
                     found, i + 1)

QuerySessionsOp(R, query) ==
    LET found == QueryStoredSessions(R.store, query)
        cache == CacheLoaded(R.sessions, found, 1)
    IN [R |-> [R EXCEPT !.sessions = cache],
        result |-> [i \in 1..Len(found) |-> CacheGet(cache, found[i].id)]]

\* The removal loop shared by cleanupSessions and archiveSessions; the ids
\* come from a query of the store, so every unlink finds its file.
RECURSIVE RemoveSessions(_, _, _)
RemoveSessions(R, toRemove, i) ==
    IF i > Len(toRemove) THEN R
    ELSE RemoveSessions(
            IF SessionStored(R.store, toRemove[i].id)
            THEN [R EXCEPT !.store = UnlinkSession(@, toRemove[i].id),
                           !.sessions = CacheDelete(@, toRemove[i].id)]
            ELSE R,
            toRemove, i + 1)

Finished(s) == s.state = "completed" \/ s.state = "failed"

CleanupSessionsOp(R) ==
    LET all == QuerySessionsOp(R, EmptyQuery)
        sessionsToRemove == SelectSeq(all.result, Finished)
        R1 == RemoveSessions(all.R, sessionsToRemove, 1)
        remaining == QuerySessionsOp(R1, EmptyQuery)
    IN [R |-> remaining.R,
        removedCount |-> Len(sessionsToRemove),
        remainingCount |-> Len(remaining.result)]

\* archiveSessions(olderThanDays); the clock counts days.
ArchiveSessionsOp(R, olderThanDays, t) ==
    LET cutoffDate == t - olderThanDays
        all == QuerySessionsOp(R, EmptyQuery)
        sessionsToArchive ==
            SelectSeq(all.result, LAMBDA s : s.lastActivityAt < cutoffDate /\ Finished(s))
        R1 == RemoveSessions(all.R, sessionsToArchive, 1)
        remaining == QuerySessionsOp(R1, EmptyQuery)
    IN [R |-> remaining.R,
        archivedCount |-> Len(sessionsToArchive),
        remainingCount |-> Len(remaining.result)]

IdsOf(list) == [i \in 1..Len(list) |-> list[i].id]

\* findRelatedSessions: everything is looked up among the sessions of the
\* session's own orchestration.
FindRelatedSessionsOp(R, sessionId) ==
    LET got == GetSessionOp(R, sessionId)
        session == CacheGet(got.R.sessions, sessionId)
        all == QuerySessionsOp(got.R, [orchestrationId |-> session.orchestrationId])
        allSessions == all.result
        parents == SelectSeq(allSessions, LAMBDA s : s.id = session.parentSessionId)
    IN IF ~got.found THEN [R |-> got.R, found |-> FALSE]
       ELSE [R |-> all.R,
             found |-> TRUE,
             parent |-> IF session.parentSessionId # None /\ parents # <<>>
                        THEN parents[1].id ELSE None,
             children |-> IdsOf(SelectSeq(allSessions,
                                 LAMBDA s : s.parentSessionId = sessionId)),
             siblings |-> IF session.parentSessionId # None
                          THEN IdsOf(SelectSeq(allSessions,
                                   LAMBDA s : s.parentSessionId = session.parentSessionId
                                              /\ s.id # sessionId))
                          ELSE <<>>]

(***************************************************************************)
(* TaskExecutor (execution/TaskExecutor.ts).                               *)
(***************************************************************************)
\* A mutation of IsDependencySatisfied: every dependency type asks for a
\* completed task.
IsDependencySatisfiedStrict(dependency, dependentTask) ==
    dependentTask.status = "completed"

IsDependencySatisfied(dependency, dependentTask) ==
    CASE dependency.type = "finish_to_start" -> dependentTask.status = "completed"
      [] dependency.type = "start_to_start" -> dependentTask.status \in {"in_progress", "completed"}
      [] dependency.type = "finish_to_finish" -> dependentTask.status = "completed"
      [] dependency.type = "start_to_finish" -> dependentTask.status \in {"in_progress", "completed"}
      [] OTHER -> FALSE

\* checkDependencies: the unsatisfied dependencies, in order.
UnsatisfiedDependencies(ts, taskId) ==
    SelectSeq(ts[taskId].dependencies,
              LAMBDA d : ~TaskExists(ts, d.taskId) \/ ~IsDependencySatisfied(d, ts[d.taskId]))

CheckDependencies(ts, taskId) ==
    [allSatisfied |-> UnsatisfiedDependencies(ts, taskId) = <<>>,
     unsatisfiedDependencies |-> UnsatisfiedDependencies(ts, taskId)]

\* checkDependencies: the satisfied dependencies, in order.
SatisfiedDependencies(ts, taskId) ==
    SelectSeq(ts[taskId].dependencies,
              LAMBDA d : TaskExists(ts, d.taskId) /\ IsDependencySatisfied(d, ts[d.taskId]))

\* A mutation of ExecuteTaskOp: the dependencies are never checked.
ExecuteTaskOpUnchecked(ts, R, seq, taskId, options, t, fail) ==
    IF ~TaskExists(ts, taskId)
    THEN [tasks |-> ts, R |-> R, seq |-> seq,
          result |-> [success |-> FALSE, taskStatus |-> "not_started", sessionId |-> None]]
    ELSE IF FALSE
    THEN [tasks |-> ts, R |-> R, seq |-> seq,
          result |-> [success |-> FALSE, taskStatus |-> ts[taskId].status, sessionId |-> None]]
    ELSE LET task == ts[taskId]
             created == CreateSessionOp(R, seq + 1,
                            [type |-> "task", orchestrationId |-> task.orchestrationId,
                             taskId |-> task.id, initialFocus |-> "Implementing"],
                            t, IF fail = "session" THEN "session" ELSE "none")
             R1 == IF options.createFreshSession THEN created.R ELSE R
             seq1 == IF options.createFreshSession THEN seq + 1 ELSE seq
             sessionId == IF options.createFreshSession THEN created.id ELSE None
             ts1 == UpdateTaskStore(ts, taskId,
                        [status |-> "in_progress", sessionId |-> sessionId], t)
             verification == CreateSessionOp(R1, seq1 + 1,
                                 [type |-> "verification", orchestrationId |-> task.orchestrationId,
                                  taskId |-> task.id, initialFocus |-> "Verifying"],
                                 t, IF fail = "verification" THEN "session" ELSE "none")
         IN IF options.createFreshSession /\ ~created.ok
            THEN [tasks |-> ts, R |-> R1, seq |-> seq1,
                  result |-> [success |-> FALSE, taskStatus |-> task.status, sessionId |-> None]]
            ELSE IF options.skipVerification
            THEN [tasks |-> ts1, R |-> R1, seq |-> seq1,
                  result |-> [success |-> TRUE, taskStatus |-> "in_progress",
                              sessionId |-> sessionId]]
            ELSE [tasks |-> ts1, R |-> verification.R, seq |-> seq1 + 1,
                  result |-> [success |-> verification.ok, taskStatus |-> "in_progress",
                              sessionId |-> sessionId]]

\* executeTask; fail names the createSession call that throws ("none",
\* "session" for the execution session, "verification").  The session context
\* is not loaded (options.loadPlanningContext unset).
ExecuteTaskOp(ts, R, seq, taskId, options, t, fail) ==
    IF ~TaskExists(ts, taskId)
    THEN [tasks |-> ts, R |-> R, seq |-> seq,
          result |-> [success |-> FALSE, taskStatus |-> "not_started", sessionId |-> None]]
    ELSE IF ~options.forceExecution /\ ~CheckDependencies(ts, taskId).allSatisfied
    THEN [tasks |-> ts, R |-> R, seq |-> seq,
          result |-> [success |-> FALSE, taskStatus |-> ts[taskId].status, sessionId |-> None]]
    ELSE LET task == ts[taskId]
             created == CreateSessionOp(R, seq + 1,
                            [type |-> "task", orchestrationId |-> task.orchestrationId,
                             taskId |-> task.id, initialFocus |-> "Implementing"],
                            t, IF fail = "session" THEN "session" ELSE "none")
             R1 == IF options.createFreshSession THEN created.R ELSE R
             seq1 == IF options.createFreshSession THEN seq + 1 ELSE seq
             sessionId == IF options.createFreshSession THEN created.id ELSE None
             ts1 == UpdateTaskStore(ts, taskId,
                        [status |-> "in_progress", sessionId |-> sessionId], t)
             verification == CreateSessionOp(R1, seq1 + 1,
                                 [type |-> "verification", orchestrationId |-> task.orchestrationId,
                                  taskId |-> task.id, initialFocus |-> "Verifying"],
                                 t, IF fail = "verification" THEN "session" ELSE "none")
         IN IF options.createFreshSession /\ ~created.ok
            THEN [tasks |-> ts, R |-> R1, seq |-> seq1,
                  result |-> [success |-> FALSE, taskStatus |-> task.status, sessionId |-> None]]
            ELSE IF options.skipVerification
            THEN [tasks |-> ts1, R |-> R1, seq |-> seq1,
                  result |-> [success |-> TRUE, taskStatus |-> "in_progress",
                              sessionId |-> sessionId]]
            ELSE [tasks |-> ts1, R |-> verification.R, seq |-> seq1 + 1,
                  result |-> [success |-> verification.ok, taskStatus |-> "in_progress",
                              sessionId |-> sessionId]]

\* Whether executeTask reaches the createSession call that fail names.
ReachesCreate(ts, taskId, options, fail) ==
    fail # "none" =>
        /\ TaskExists(ts, taskId)
        /\ options.forceExecution \/ CheckDependencies(ts, taskId).allSatisfied
        /\ fail = "session" => options.createFreshSession
        /\ fail = "verification" => ~options.skipVerification

\* completeTask; failSave tells whether the session's save throws.
CompleteTaskOp(ts, R, taskId, t, failSave) ==
    IF ~TaskExists(ts, taskId) THEN [tasks |-> ts, R |-> R, success |-> FALSE]
    ELSE LET task == ts[taskId]
             ts1 == UpdateTaskStore(ts, taskId,
                        [status |-> "completed", completionPercentage |-> 100], t)
             updated == UpdateSessionOp(R, task.sessionId, [state |-> "completed"], t, failSave)
         IN IF task.sessionId = None THEN [tasks |-> ts1, R |-> R, success |-> TRUE]
            ELSE [tasks |-> ts1, R |-> updated.R, success |-> updated.outcome = "updated"]

(***************************************************************************)
(* Record files.  StateManager and TaskManifest seen at the level of the   *)
(* files they write: a file holds a complete JSON document, a proper       *)
(* prefix of one, or nothing.  D = [disk, backups].                        *)
(***************************************************************************)
\* Record ids.  The generated ids ("session-<clock>-<random>") are such that
\* no backup name of one record starts with the backup prefix of another.
RecordIds == 1..NumRecords

CallIds == 1..NumCalls

\* StorageConfig as the constructor completes it.
StorageConfigs == [enableBackups : BOOLEAN, maxBackups : 0..MaxBackups]

\* JSON.stringify(record) written out in full.
Document(record) == [text |-> "complete", record |-> record]

\* The first bytes of JSON.stringify(record) only.
Truncated(record) == [text |-> "partial", record |-> record]

\* A file of length zero.
EmptyFile == [text |-> "empty", record |-> [id |-> None]]

\* JSON.parse succeeds on complete documents only.
Parses(content) == content.text = "complete"

FileExists(d, dir, id) == <<dir, id>> \in DOMAIN d

PutFile(d, dir, id, content) ==
    [n \in DOMAIN d \cup {<<dir, id>>} |-> IF n = <<dir, id>> THEN content ELSE d[n]]

RemoveFile(d, dir, id) == [n \in DOMAIN d \ {<<dir, id>>} |-> d[n]]

\* ValidationUtils.validateSession: SessionSchema.parse.
ValidateSession(data) ==
    [isValid |-> /\ data.id # None
                 /\ data.type \in SessionType
                 /\ data.state \in SessionState
                 /\ data.orchestrationId # "",
     session |-> [f \in SessionFields |-> data[f]]]

\* ErrorHandler.validateTask (TaskSchema.parse); saveTask never calls it.
ValidateTask(data) ==
    [isValid |-> /\ data.id # None
                 /\ data.status \in TaskStatus
                 /\ data.priority \in TaskPriority
                 /\ data.orchestrationId # ""
                 /\ \A k \in DOMAIN data.dependencies :
                        data.dependencies[k].type \in {"blocks", "enables", "requires"}
                 /\ data.completionPercentage \in 0..100]

\* fs.writeFile opens the file with truncation and then writes: an attempt
\* that fails, or a process that stops, leaves the file as it was, empty, or
\* holding the first bytes of the new document.
WriteErrors == {"EBUSY", "EIO", "crash"}
WriteOutcomes == {"ok"} \cup WriteErrors
FilesLeft == {"untouched", "empty", "partial"}

Damaged(d, dir, id, data, left) ==
    CASE left = "untouched" -> d
      [] left = "empty" -> PutFile(d, dir, id, EmptyFile)
      [] left = "partial" -> PutFile(d, dir, id, Truncated(data))

\* The retry budget of writeFileWithRetry.
MaxRetries == 3

\* The attempt at which the loop of writeFileWithRetry ends: the first one
\* that succeeds, that fails with another error than EBUSY, or the last one.
LastAttempt(outcomes, maxRetries) ==
    CHOOSE k \in 1..maxRetries :
        /\ outcomes[k] # "EBUSY" \/ k = maxRetries
        /\ \A j \in 1..(k - 1) : outcomes[j] = "EBUSY"

\* StateManager.writeFileWithRetry: outcomes[k] is how attempt k ends.
WriteFileWithRetry(d, dir, id, data, outcomes, left) ==
    LET k == LastAttempt(outcomes, MaxRetries)
    IN [disk |-> IF outcomes[k] = "ok" THEN PutFile(d, dir, id, Document(data))
                 ELSE Damaged(d, dir, id, data, left),
        error |-> IF outcomes[k] = "ok" THEN "none" ELSE outcomes[k],
        attempts |-> k]

BackupsOf(b, type, id) == {x \in b : x.type = type /\ x.id = id}

\* A mutation of CleanupBackups: the sorted names are not reversed, so the
\* first maxBackups, the oldest, are the ones kept.
CleanupBackupsKeepOldest(b, cfg, type, id) ==
    IF cfg.maxBackups = 0 THEN b
    ELSE LET mine == BackupsOf(b, type, id)
             kept == {x \in mine :
                        Cardinality({y \in mine : y.stamp < x.stamp}) < cfg.maxBackups}
         IN (b \ mine) \cup kept

\* cleanupBackups: the names of the record's backups sorted, newest first,
\* and everything after the first maxBackups unlinked.
CleanupBackups(b, cfg, type, id) ==
    IF cfg.maxBackups = 0 THEN b
    ELSE LET mine == BackupsOf(b, type, id)
             kept == {x \in mine :
                        Cardinality({y \in mine : y.stamp > x.stamp}) < cfg.maxBackups}
         IN (b \ mine) \cup kept

\* createBackup: the file is copied under a name made of type, id and the
\* clock; copyFails tells whether copyFile throws, rotateFails whether the
\* readdir of cleanupBackups does; either is only logged.
CreateBackup(D, cfg, type, id, t, copyFails, rotateFails) ==
    IF ~cfg.enableBackups \/ ~FileExists(D.disk, type, id) \/ copyFails THEN D
    ELSE LET copy == [type |-> type, id |-> id, stamp |-> t, content |-> D.disk[<<type, id>>]]
             others == {x \in D.backups : ~(x.type = type /\ x.id = id /\ x.stamp = t)}
         IN [D EXCEPT !.backups = IF rotateFails THEN others \cup {copy}
                                  ELSE CleanupBackups(others \cup {copy}, cfg, type, id)]

\* A mutation of SaveSessionFile: a failure of the backup is not caught and
\* ends the save before the record is written.
SaveSessionFileStrict(D, cfg, session, t, io) ==
    LET validation == ValidateSession(session)
        backedUp == CreateBackup(D, cfg, "sessions", session.id, t,
                                 io.copyFails, io.rotateFails)
        written == WriteFileWithRetry(backedUp.disk, "sessions", session.id,
                                      validation.session, io.outcomes, io.left)
    IN IF ~validation.isValid
       THEN [D |-> D, error |-> "StorageError", cause |-> "validation", attempts |-> 0]
       ELSE IF cfg.enableBackups /\ FileExists(D.disk, "sessions", session.id)
               /\ (io.copyFails \/ io.rotateFails)
       THEN [D |-> backedUp, error |-> "StorageError", cause |-> "backup", attempts |-> 0]
       ELSE [D |-> [backedUp EXCEPT !.disk = written.disk],
             error |-> CASE written.error = "none" -> "none"
                         [] written.error = "crash" -> "crash"
                         [] OTHER -> "StorageError",
             cause |-> written.error,
             attempts |-> written.attempts]

\* StateManager.saveSession.  io = [outcomes, left, copyFails, rotateFails].
SaveSessionFile(D, cfg, session, t, io) ==
    LET validation == ValidateSession(session)
        backedUp == CreateBackup(D, cfg, "sessions", session.id, t,
                                 io.copyFails, io.rotateFails)
        written == WriteFileWithRetry(backedUp.disk, "sessions", session.id,
                                      validation.session, io.outcomes, io.left)
    IN IF ~validation.isValid
       THEN [D |-> D, error |-> "StorageError", cause |-> "validation", attempts |-> 0]
       ELSE [D |-> [backedUp EXCEPT !.disk = written.disk],
             error |-> CASE written.error = "none" -> "none"
                         [] written.error = "crash" -> "crash"
                         [] OTHER -> "StorageError",
             cause |-> written.error,
             attempts |-> written.attempts]

\* StateManager.loadSession.
LoadSessionFile(d, id) ==
    IF ~FileExists(d, "sessions", id) THEN [outcome |-> "null"]
    ELSE IF ~Parses(d[<<"sessions", id>>]) THEN [outcome |-> "CorruptionError"]
    ELSE IF ~ValidateSession(d[<<"sessions", id>>].record).isValid
    THEN [outcome |-> "StorageError"]
    ELSE [outcome |-> "loaded", record |-> ValidateSession(d[<<"sessions", id>>].record).session]

\* StateManager.deleteSession: backup, then unlink, which throws when the
\* file is absent.
DeleteSessionFile(D, cfg, id, t, copyFails, rotateFails) ==
    LET backedUp == CreateBackup(D, cfg, "sessions", id, t, copyFails, rotateFails)
    IN IF ~FileExists(D.disk, "sessions", id) THEN [D |-> backedUp, error |-> "StorageError"]
       ELSE [D |-> [backedUp EXCEPT !.disk = RemoveFile(@, "sessions", id)], error |-> "none"]

\* TaskManifest.saveTask: one writeFile, no validation, no backup, no retry.
SaveTaskFile(D, task, io) ==
    LET outcome == io.outcomes[1]
    IN [D |-> [D EXCEPT !.disk = IF outcome = "ok" THEN PutFile(@, "tasks", task.id, Document(task))
                                 ELSE Damaged(@, "tasks", task.id, task, io.left)],
        error |-> CASE outcome = "ok" -> "none"
                    [] outcome = "crash" -> "crash"
                    [] OTHER -> "StorageError",
        cause |-> IF outcome = "ok" THEN "none" ELSE outcome,
        attempts |-> 1]

\* A mutation of LoadTaskFile: a file that does not parse reads as absent.
LoadTaskFileLenient(d, id) ==
    IF ~FileExists(d, "tasks", id) \/ ~Parses(d[<<"tasks", id>>]) THEN [outcome |-> "null"]
    ELSE [outcome |-> "loaded", record |-> d[<<"tasks", id>>].record]

\* TaskManifest.loadTask.
LoadTaskFile(d, id) ==
    IF ~FileExists(d, "tasks", id) THEN [outcome |-> "null"]
    ELSE IF ~Parses(d[<<"tasks", id>>]) THEN [outcome |-> "CorruptionError"]
    ELSE [outcome |-> "loaded", record |-> d[<<"tasks", id>>].record]

(***************************************************************************)
(* fs.writeFile step by step.  Between the open, the write and the close   *)
(* the caller waits on the event loop, and another call may run.           *)
(***************************************************************************)
Digits(n) == IF n < 10 THEN 1 ELSE IF n < 100 THEN 2 ELSE 3

\* The length of JSON.stringify(task, null, 2), less what is the same for
\* every task: the two enum strings, the percentage, and a line for each
\* timestamp that is set (an undefined field is left out).
JsonLength(task) ==
    Len(task.status) + Len(task.priority) + Digits(task.completionPercentage)
    + (IF task.startedAt # None THEN 43 ELSE 0)
    + (IF task.completedAt # None THEN 45 ELSE 0)

\* A complete document whose end is followed by the last bytes of a longer
\* one that was there before; size is the length of the file.
Overwritten(record, size) == [text |-> "mixed", record |-> record, size |-> size]

FileSize(content) ==
    CASE content.text = "empty" -> 0
      [] content.text = "complete" -> JsonLength(content.record)
      [] content.text = "mixed" -> content.size

\* open(path, 'w'): the file is created or cut to length zero.
OpenForWriting(d, dir, id) == PutFile(d, dir, id, EmptyFile)

\* write(fd, data) on a descriptor opened by OpenForWriting: the bytes go to
\* the start of the file, and what the file holds beyond them stays.
WriteFromStart(d, dir, id, data) ==
    IF JsonLength(data) >= FileSize(d[<<dir, id>>])
    THEN PutFile(d, dir, id, Document(data))
    ELSE PutFile(d, dir, id, Overwritten(data, FileSize(d[<<dir, id>>])))

(***************************************************************************)
(* RecoveryUtils.                                                          *)
(***************************************************************************)

\* fixCommonJsonIssues: trailing commas and comments are removed and bare
\* keys quoted; no brace or bracket is ever added, so an empty file stays
\* empty and a document cut short stays cut short.
FixCommonJsonIssues(content) ==
    CASE content.text = "empty" -> EmptyFile
      [] content.text = "partial" -> Truncated(content.record)
      [] OTHER -> content

\* recoverTaskData: missing or invalid fields get defaults.
RecoverTaskData(data) ==
    [data EXCEPT !.status = IF @ \in TaskStatus THEN @ ELSE "not_started",
                 !.priority = IF @ \in TaskPriority THEN @ ELSE "medium"]

\* recoverTaskManifestData: the parsed object is taken for a manifest and
\* is given a tasks and a plans array when it has none.
RecoverTaskManifestData(data) ==
    [f \in DOMAIN data \cup {"tasks", "plans"} |->
        IF f = "tasks"
        THEN IF "tasks" \in DOMAIN data
             THEN [i \in DOMAIN data.tasks |-> RecoverTaskData(data.tasks[i])]
             ELSE <<>>
        ELSE IF f = "plans" THEN (IF "plans" \in DOMAIN data THEN data.plans ELSE <<>>)
        ELSE data[f]]

\* RecoveryUtils.MAX_BACKUPS.
MAX_BACKUPS == 10

\* cleanupOldBackups: every file of the backups directory that ends in
\* ".backup", whatever file it is a copy of, sorted by modification time;
\* all but the MAX_BACKUPS newest are unlinked.  (Copies of equal time are
\* both kept here; the rotation is only reached with copies of different
\* times.)
CleanupOldBackups(b) ==
    LET copies == {x \in b : x.type = "recovery"}
    IN IF Cardinality(copies) <= MAX_BACKUPS THEN b
       ELSE b \ {x \in copies :
                    Cardinality({y \in copies : y.stamp > x.stamp}) >= MAX_BACKUPS}

\* RecoveryUtils.createBackup: a copy of the file under a name made of the
\* file name and the clock, then cleanupOldBackups.
RecoveryBackup(D, id, t) ==
    LET copy == [type |-> "recovery", id |-> id, stamp |-> t, content |-> D.disk[<<"tasks", id>>]]
        others == {x \in D.backups : ~(x.type = "recovery" /\ x.id = id /\ x.stamp = t)}
    IN [D EXCEPT !.backups = CleanupOldBackups(others \cup {copy})]

\* recoverTaskManifestFile: backup, parse, parse again after
\* fixCommonJsonIssues, repair the fields, write back.
RecoverTaskManifestFile(D, id, t) ==
    IF ~FileExists(D.disk, "tasks", id)
    THEN [D |-> D, success |-> FALSE, message |-> "Recovery failed"]
    ELSE LET backedUp == RecoveryBackup(D, id, t)
             content == D.disk[<<"tasks", id>>]
             fixed == FixCommonJsonIssues(content)
             parsed == IF Parses(content) THEN content.record ELSE fixed.record
             recovered == RecoverTaskManifestData(parsed)
         IN IF ~Parses(content) /\ ~Parses(fixed)
            THEN [D |-> backedUp, success |-> FALSE,
                  message |-> "Unable to parse task manifest data as JSON"]
            ELSE [D |-> [backedUp EXCEPT !.disk = PutFile(@, "tasks", id, Document(recovered))],
                  success |-> TRUE,
                  message |-> "Task manifest file successfully recovered",
                  recoveredData |-> recovered]

(***************************************************************************)
(* The operations as actions.                                              *)
(***************************************************************************)
TotalEdges == LET RECURSIVE Sum(_)
                  Sum(S) == IF S = {} THEN 0
                            ELSE LET x == CHOOSE y \in S : TRUE
                                 IN Len(tasks[x].dependencies) + Sum(S \ {x})
              IN Sum(DOMAIN tasks)

\* generateTaskId: an id no stored task has.
FreshTaskId == CHOOSE id \in TaskIds \ DOMAIN tasks : \A other \in TaskIds \ DOMAIN tasks : id <= other

Registry == [sessions |-> sessions, store |-> store, pending |-> pending]

SetRegistry(R) ==
    /\ sessions' = R.sessions
    /\ store' = R.store
    /\ pending' = R.pending

CreateTask(params) ==
    /\ DOMAIN tasks # TaskIds
    /\ tasks' = SaveTask(tasks, NewTask(FreshTaskId, params, now))
    /\ res' = [op |-> "createTask", outcome |-> "created"]
    /\ UNCHANGED <<sessionVars, now>>
    /\ UNCHANGED diskVars

UpdateTask(taskId, params) ==
    /\ tasks' = UpdateTaskStore(tasks, taskId, params, now)
    /\ res' = [op |-> "updateTask",
               outcome |-> IF TaskExists(tasks, taskId) THEN "updated" ELSE "null",
               before |-> IF TaskExists(tasks, taskId) THEN tasks[taskId].status ELSE "absent",
               requested |-> IF "status" \in DOMAIN params THEN params.status ELSE "unchanged"]
    /\ UNCHANGED <<sessionVars, now>>
    /\ UNCHANGED diskVars

\* updateTask with the task's dependency list extended by one entry, the way
\* the manifest's tests inject a dependency into an existing task.
AddDependency(taskId, dep) ==
    /\ TaskExists(tasks, taskId)
    /\ TotalEdges < MaxEdges
    /\ UpdateTask(taskId, [dependencies |-> Append(tasks[taskId].dependencies, dep)])

CallValidateTaskDependencies(orchestrationId) ==
    /\ res' = [op |-> "validateTaskDependencies", orchestrationId |-> orchestrationId,
               result |-> ValidateTaskDependencies(tasks, orchestrationId)]
    /\ UNCHANGED <<tasks, sessionVars, now>>
    /\ UNCHANGED diskVars

CallGetTaskExecutionOrder(orchestrationId) ==
    /\ res' = [op |-> "getTaskExecutionOrder", orchestrationId |-> orchestrationId,
               result |-> GetTaskExecutionOrder(tasks, orchestrationId)]
    /\ UNCHANGED <<tasks, sessionVars, now>>
    /\ UNCHANGED diskVars

CallGetTaskDependencyGraph(orchestrationId) ==
    /\ res' = [op |-> "getTaskDependencyGraph", orchestrationId |-> orchestrationId,
               result |-> GetTaskDependencyGraph(tasks, orchestrationId)]
    /\ UNCHANGED <<tasks, sessionVars, now>>
    /\ UNCHANGED diskVars

CallGetNextTask(orchestrationId) ==
    /\ res' = [op |-> "getNextTask", orchestrationId |-> orchestrationId,
               result |-> GetNextTask(tasks, orchestrationId)]
    /\ UNCHANGED <<tasks, sessionVars, now>>
    /\ UNCHANGED diskVars

\* checkDependencies throws when the task itself is not found.
CallCheckDependencies(taskId) ==
    /\ res' = IF TaskExists(tasks, taskId)
              THEN [op |-> "checkDependencies", outcome |-> "ok", taskId |-> taskId,
                    result |-> CheckDependencies(tasks, taskId),
                    satisfiedDependencies |-> SatisfiedDependencies(tasks, taskId)]
              ELSE [op |-> "checkDependencies", outcome |-> "not_found", taskId |-> taskId]
    /\ UNCHANGED <<tasks, sessionVars, now>>
    /\ UNCHANGED diskVars

\* The number of sessions executeTask creates at most under the options.
SessionsNeeded(options) ==
    (IF options.createFreshSession THEN 1 ELSE 0) + (IF options.skipVerification THEN 0 ELSE 1)

ExecuteTask(taskId, options, fail) ==
    /\ sessionSeq + SessionsNeeded(options) <= NumSessions
    /\ ReachesCreate(tasks, taskId, options, fail)
    /\ LET r == ExecuteTaskOp(tasks, Registry, sessionSeq, taskId, options, now, fail)
       IN /\ tasks' = r.tasks
          /\ SetRegistry(r.R)
          /\ sessionSeq' = r.seq
          /\ res' = [op |-> "executeTask", taskId |-> taskId,
                     forceExecution |-> options.forceExecution,
                     before |-> IF TaskExists(tasks, taskId) THEN tasks[taskId].status ELSE "absent",
                     result |-> r.result]
    /\ UNCHANGED now
    /\ UNCHANGED diskVars

CompleteTask(taskId, failSave) ==
    /\ failSave => (TaskExists(tasks, taskId) /\ tasks[taskId].sessionId # None
                    /\ GetSessionOp(Registry, tasks[taskId].sessionId).found)
    /\ LET r == CompleteTaskOp(tasks, Registry, taskId, now, failSave)
       IN /\ tasks' = r.tasks
          /\ SetRegistry(r.R)
          /\ res' = [op |-> "completeTask", taskId |-> taskId,
                     before |-> IF TaskExists(tasks, taskId) THEN tasks[taskId].status ELSE "absent",
                     success |-> r.success]
    /\ UNCHANGED <<sessionSeq, now>>
    /\ UNCHANGED diskVars

ParentOf(params) == IF "parentSessionId" \in DOMAIN params THEN params.parentSessionId ELSE None

CreateSession(params, fail) ==
    /\ sessionSeq < NumSessions
    /\ ReachesSave(Registry, params, fail)
    /\ LET r == CreateSessionOp(Registry, sessionSeq + 1, params, now, fail)
       IN /\ SetRegistry(r.R)
          /\ res' = [op |-> "createSession",
                     outcome |-> IF r.ok THEN "ok" ELSE "error",
                     id |-> r.id,
                     parentSessionId |-> ParentOf(params),
                     parentStored |-> SessionStored(store, ParentOf(params))]
    /\ sessionSeq' = sessionSeq + 1
    /\ UNCHANGED <<tasks, now>>
    /\ UNCHANGED diskVars

\* The state the registry would report for the session before a call.
StateBefore(sessionId) ==
    IF CacheHas(sessions, sessionId) THEN CacheGet(sessions, sessionId).state
    ELSE IF SessionStored(store, sessionId) THEN store[sessionId].state
    ELSE "absent"

UpdateSession(sessionId, params, failSave) ==
    /\ failSave => GetSessionOp(Registry, sessionId).found
    /\ LET r == UpdateSessionOp(Registry, sessionId, params, now, failSave)
           got == GetSessionOp(Registry, sessionId)
       IN /\ SetRegistry(r.R)
          /\ res' = [op |-> "updateSession",
                     outcome |-> r.outcome,
                     id |-> sessionId,
                     params |-> params,
                     before |-> StateBefore(sessionId),
                     \* the same call as the one just answered
                     repeated |-> /\ res.op = "updateSession"
                                  /\ res.outcome = "updated"
                                  /\ res.id = sessionId
                                  /\ res.params = params,
                     completedAtBefore |->
                         IF got.found THEN CacheGet(got.R.sessions, sessionId).completedAt ELSE None,
                     failureReasonBefore |->
                         IF got.found THEN CacheGet(got.R.sessions, sessionId).failureReason
                         ELSE Undefined]
    /\ UNCHANGED <<tasks, sessionSeq, now>>
    /\ UNCHANGED diskVars

\* session.updateFocus(newFocus) on a session object the registry holds.
UpdateFocus(sessionId, newFocus) ==
    /\ CacheHas(sessions, sessionId)
    /\ SetRegistry(Mutated(Registry, UpdatedFocus(CacheGet(sessions, sessionId), newFocus, now)))
    /\ res' = [op |-> "updateFocus", id |-> sessionId, newFocus |-> newFocus, at |-> now]
    /\ UNCHANGED <<tasks, sessionSeq, now>>
    /\ UNCHANGED diskVars

DeleteSession(sessionId) ==
    /\ LET r == DeleteSessionOp(Registry, sessionId, now)
       IN /\ SetRegistry(r.R)
          /\ res' = [op |-> "deleteSession", outcome |-> IF r.ok THEN "ok" ELSE "error",
                     id |-> sessionId]
    /\ UNCHANGED <<tasks, sessionSeq, now>>
    /\ UNCHANGED diskVars

CleanupSessions ==
    /\ LET r == CleanupSessionsOp(Registry)
       IN /\ SetRegistry(r.R)
          /\ res' = [op |-> "cleanupSessions", outcome |-> "ok",
                     removedCount |-> r.removedCount, remainingCount |-> r.remainingCount]
    /\ UNCHANGED <<tasks, sessionSeq, now>>
    /\ UNCHANGED diskVars

ArchiveSessions(olderThanDays) ==
    /\ LET r == ArchiveSessionsOp(Registry, olderThanDays, now)
       IN /\ SetRegistry(r.R)
          /\ res' = [op |-> "archiveSessions", outcome |-> "ok",
                     archivedCount |-> r.archivedCount, remainingCount |-> r.remainingCount]
    /\ UNCHANGED <<tasks, sessionSeq, now>>
    /\ UNCHANGED diskVars

CallFindRelatedSessions(sessionId) ==
    /\ LET r == FindRelatedSessionsOp(Registry, sessionId)
       IN /\ SetRegistry(r.R)
          /\ res' = IF r.found
                    THEN [op |-> "findRelatedSessions", outcome |-> "ok", id |-> sessionId,
                          parent |-> r.parent, children |-> r.children, siblings |-> r.siblings]
                    ELSE [op |-> "findRelatedSessions", outcome |-> "error", id |-> sessionId]
    /\ UNCHANGED <<tasks, sessionSeq, now>>
    /\ UNCHANGED diskVars

\* A write started by handleSessionEvent finishes; its failure is only logged.
BackgroundSave(succeeds) ==
    /\ pending # <<>>
    /\ store' = IF succeeds THEN SaveSession(store, Head(pending)) ELSE store
    /\ pending' = Tail(pending)
    /\ UNCHANGED <<tasks, sessions, sessionSeq, now, res>>
    /\ UNCHANGED diskVars

Tick ==
    /\ now < MaxClock
    /\ now' = now + 1
    /\ UNCHANGED <<tasks, sessionVars, res>>
    /\ UNCHANGED diskVars

\* The clock moves on, up to a limit.
TickUntil(limit) ==
    /\ now < limit
    /\ now' = now + 1
    /\ UNCHANGED <<tasks, sessionVars, res>>
    /\ UNCHANGED diskVars

Storage == [disk |-> disk, backups |-> backups]

SetStorage(D) ==
    /\ disk' = D.disk
    /\ backups' = D.backups
    /\ UNCHANGED <<config, calls, thinking>>

CallSaveSession(session, io) ==
    /\ LET r == SaveSessionFile(Storage, config, session, now, io)
       IN /\ SetStorage(r.D)
          /\ res' = [op |-> "save", kind |-> "sessions", id |-> session.id, record |-> session,
                     outcomes |-> io.outcomes, copyFails |-> io.copyFails,
                     rotateFails |-> io.rotateFails,
                     error |-> r.error, cause |-> r.cause, attempts |-> r.attempts]
    /\ UNCHANGED <<tasks, sessionVars, now>>

CallSaveTask(task, io) ==
    /\ LET r == SaveTaskFile(Storage, task, io)
       IN /\ SetStorage(r.D)
          /\ res' = [op |-> "save", kind |-> "tasks", id |-> task.id, record |-> task,
                     outcomes |-> io.outcomes,
                     error |-> r.error, cause |-> r.cause, attempts |-> r.attempts]
    /\ UNCHANGED <<tasks, sessionVars, now>>

CallLoadSession(id) ==
    /\ res' = [op |-> "load", kind |-> "sessions", id |-> id, result |-> LoadSessionFile(disk, id)]
    /\ UNCHANGED <<tasks, sessionVars, now, diskVars>>

CallLoadTask(id) ==
    /\ res' = [op |-> "load", kind |-> "tasks", id |-> id, result |-> LoadTaskFile(disk, id)]
    /\ UNCHANGED <<tasks, sessionVars, now, diskVars>>

\* updateTask up to the end of loadTask: null for an absent file, a
\* CorruptionError for one that does not parse, else the updated record is
\* built and saveTask is about to open the file.
UpdateTaskLoad(c, taskId, params) ==
    /\ calls[c].pc = "idle"
    /\ LET loaded == LoadTaskFile(disk, taskId)
       IN calls' = [calls EXCEPT ![c] =
                       IF loaded.outcome = "loaded"
                       THEN [pc |-> "loaded", id |-> taskId,
                             task |-> UpdatedTask(loaded.record, params, now)]
                       ELSE [pc |-> loaded.outcome, id |-> taskId]]
    /\ res' = [op |-> "updateTask.load", call |-> c, id |-> taskId]
    /\ UNCHANGED <<tasks, sessionVars, now, disk, backups, config, thinking>>

\* saveTask, first half: fs.writeFile has opened the file.
UpdateTaskOpen(c) ==
    /\ calls[c].pc = "loaded"
    /\ disk' = OpenForWriting(disk, "tasks", calls[c].id)
    /\ calls' = [calls EXCEPT ![c].pc = "opened"]
    /\ res' = [op |-> "updateTask.open", call |-> c, id |-> calls[c].id]
    /\ UNCHANGED <<tasks, sessionVars, now, backups, config, thinking>>

\* saveTask, second half: the document is written and updateTask returns.
UpdateTaskWrite(c) ==
    /\ calls[c].pc = "opened"
    /\ disk' = WriteFromStart(disk, "tasks", calls[c].id, calls[c].task)
    /\ calls' = [calls EXCEPT ![c].pc = "done"]
    /\ res' = [op |-> "updateTask.write", call |-> c, id |-> calls[c].id]
    /\ UNCHANGED <<tasks, sessionVars, now, backups, config, thinking>>

\* saveSession(session) followed, when it succeeded, by loadSession(session.id).
CallSaveThenLoadSession(session, io) ==
    /\ LET r == SaveSessionFile(Storage, config, session, now, io)
       IN /\ SetStorage(r.D)
          /\ res' = [op |-> "saveThenLoad", kind |-> "sessions", id |-> session.id,
                     record |-> session, error |-> r.error,
                     result |-> IF r.error = "none" THEN LoadSessionFile(r.D.disk, session.id)
                                ELSE [outcome |-> "not_called"]]
    /\ UNCHANGED <<tasks, sessionVars, now>>

\* RecoveryUtils.recoverTaskManifestFile on the file of task id; `load`
\* is what loadTask answers for the file as it was before.
CallRecoverTaskManifestFile(id) ==
    /\ LET r == RecoverTaskManifestFile(Storage, id, now)
       IN /\ SetStorage(r.D)
          /\ res' = [op |-> "recover", kind |-> "tasks", id |-> id,
                     load |-> LoadTaskFile(disk, id),
                     unlinked |-> backups \ r.D.backups,
                     before |-> IF FileExists(disk, "tasks", id)
                                THEN disk[<<"tasks", id>>].text ELSE "absent",
                     result |-> [f \in DOMAIN r \ {"D"} |-> r[f]]]
    /\ UNCHANGED <<tasks, sessionVars, now>>

CallDeleteSession(id, copyFails, rotateFails) ==
    /\ LET r == DeleteSessionFile(Storage, config, id, now, copyFails, rotateFails)
       IN /\ SetStorage(r.D)
          /\ res' = [op |-> "delete", kind |-> "sessions", id |-> id, copyFails |-> copyFails,
                     rotateFails |-> rotateFails,
                     error |-> r.error]
    /\ UNCHANGED <<tasks, sessionVars, now>>

\* The constructor's defaults: backups enabled, maxBackups at its default.
DefaultConfig == [enableBackups |-> TRUE, maxBackups |-> MaxBackups]

InitWith(storageConfig) ==
    /\ config = storageConfig
    /\ tasks = <<>>
    /\ sessions = <<>>
    /\ store = <<>>
    /\ pending = <<>>
    /\ sessionSeq = 0
    /\ now = 1
    /\ res = NoResult
    /\ disk = <<>>
    /\ backups = {}
    /\ calls = [c \in CallIds |-> [pc |-> "idle"]]
    /\ thinking = NoThinking

InitEmpty == InitWith(DefaultConfig)

(***************************************************************************)
(* SpecGraph: dependency graphs built by createTask and updateTask, and    *)
(* the graph queries applied to them.                                      *)
(***************************************************************************)
GraphNext ==
    \/ \E o \in Orchs : CreateTask([orchestrationId |-> o])
    \/ \E id \in TaskIds, target \in TaskIds :
          AddDependency(id, [taskId |-> target, type |-> "finish_to_start"])
    \/ \E o \in Orchs : CallValidateTaskDependencies(o)
    \/ \E o \in Orchs : CallGetTaskExecutionOrder(o)

SpecGraph == InitEmpty /\ [][GraphNext]_vars

(***************************************************************************)
(* SpecLevels: the same graphs, handed to getTaskDependencyGraph.          *)
(***************************************************************************)
LevelsNext ==
    \/ \E o \in Orchs : CreateTask([orchestrationId |-> o])
    \/ \E id \in TaskIds, target \in TaskIds :
          AddDependency(id, [taskId |-> target, type |-> "finish_to_start"])
    \/ \E o \in Orchs : CallGetTaskDependencyGraph(o)

SpecLevels == InitEmpty /\ [][LevelsNext]_vars

(***************************************************************************)
(* SpecNext: tasks of every priority, with and without a dependency, some  *)
(* of them no longer not_started, and getNextTask.                         *)
(***************************************************************************)
NextNext ==
    \/ \E o \in Orchs, p \in TaskPriority :
          /\ Cardinality(DOMAIN tasks) < NextTasks
          /\ CreateTask([orchestrationId |-> o, priority |-> p])
    \/ \E p \in TaskPriority :
          /\ Cardinality(DOMAIN tasks) < NextTasks
          /\ CreateTask([orchestrationId |-> "orch-1", priority |-> p,
                         dependencies |-> <<[taskId |-> 1, type |-> "finish_to_start"]>>])
    \/ \E id \in TaskIds : TaskExists(tasks, id) /\ UpdateTask(id, [status |-> "completed"])
    \/ \E o \in Orchs : CallGetNextTask(o)

SpecNext == InitEmpty /\ [][NextNext]_vars

(***************************************************************************)
(* SpecStatus: every status requested for tasks in every status.           *)
(***************************************************************************)
StatusNext ==
    \/ /\ Cardinality(DOMAIN tasks) < ExecTasks
       /\ CreateTask([orchestrationId |-> "orch-1"])
    \/ \E id \in TaskIds, s \in TaskStatus : UpdateTask(id, [status |-> s])
    \/ Tick

SpecStatus == InitEmpty /\ [][StatusNext]_vars

(***************************************************************************)
(* SpecStamps: every status requested for a task in every status, at       *)
(* different times.                                                        *)
(***************************************************************************)
StampsNext ==
    \/ /\ Cardinality(DOMAIN tasks) < StampTasks
       /\ CreateTask([orchestrationId |-> "orch-1"])
    \/ \E id \in 1..StampTasks, s \in TaskStatus : UpdateTask(id, [status |-> s])
    \/ \E id \in 1..StampTasks : UpdateTask(id, [priority |-> "high"])
    \/ Tick

SpecStamps == InitEmpty /\ [][StampsNext]_vars

(***************************************************************************)
(* SpecTask: the manifest and the executor on a few tasks.                 *)
(***************************************************************************)
ExecutionOptions ==
    [forceExecution : BOOLEAN, createFreshSession : BOOLEAN, skipVerification : BOOLEAN]

TaskNext ==
    \/ /\ Cardinality(DOMAIN tasks) < ExecTasks
       /\ CreateTask([orchestrationId |-> "orch-1"])
    \/ /\ Cardinality(DOMAIN tasks) < ExecTasks
       /\ CreateTask([orchestrationId |-> "orch-1",
                      dependencies |-> <<[taskId |-> 1, type |-> "finish_to_start"]>>])
    \/ \E id \in TaskIds : UpdateTask(id, [status |-> "not_started"])
    \/ \E id \in TaskIds, options \in ExecutionOptions, fail \in {"none", "session", "verification"} :
          /\ sessionSeq + SessionsNeeded(options) <= ExecSessions
          /\ ExecuteTask(id, options, fail)
    \/ \E id \in TaskIds, failSave \in BOOLEAN : CompleteTask(id, failSave)
    \/ \E succeeds \in BOOLEAN : BackgroundSave(succeeds)

SpecTask == InitEmpty /\ [][TaskNext]_vars

(***************************************************************************)
(* SpecProgress: the manifest and the executor, with updateTask handed a   *)
(* progress.completionPercentage.  UpdateTaskParams types it as a number.  *)
(***************************************************************************)
Percentages == {-1, 0, 50, 100, 101}

ProgressNext ==
    \/ /\ Cardinality(DOMAIN tasks) < ProgressTasks
       /\ CreateTask([orchestrationId |-> "orch-1"])
    \/ \E id \in 1..ProgressTasks, p \in Percentages :
          UpdateTask(id, [completionPercentage |-> p])
    \/ \E id \in 1..ProgressTasks, options \in ExecutionOptions :
          /\ sessionSeq + SessionsNeeded(options) <= ExecSessions
          /\ ExecuteTask(id, options, "none")
    \/ \E id \in 1..ProgressTasks : CompleteTask(id, FALSE)
    \/ BackgroundSave(TRUE)

SpecProgress == InitEmpty /\ [][ProgressNext]_vars

(***************************************************************************)
(* SpecSessionState: sessions without parents and their state changes.     *)
(***************************************************************************)
SessionIds == 1..NumSessions

StateUpdates ==
    [state : SessionState] \cup {[state |-> "failed", failureReason |-> "timeout"]}

SessionStateNext ==
    \/ /\ sessionSeq < StateSessions
       /\ CreateSession([type |-> "planning", orchestrationId |-> "orch-1"], "none")
    \/ \E id \in SessionIds, params \in StateUpdates : UpdateSession(id, params, FALSE)
    \/ \E succeeds \in BOOLEAN : BackgroundSave(succeeds)
    \/ Tick

SpecSessionState == InitEmpty /\ [][SessionStateNext]_vars

(***************************************************************************)
(* SpecHierarchy: parent and child sessions, deletion and cleanup, with    *)
(* saves that may fail.                                                    *)
(***************************************************************************)
HierarchyNext ==
    \/ \E fail \in {"none", "session"} :
          /\ sessionSeq < HierarchySessions
          /\ CreateSession([type |-> "planning", orchestrationId |-> "orch-1"], fail)
    \/ \E o \in Orchs, parent \in 1..sessionSeq, fail \in {"none", "session", "parent"} :
          /\ sessionSeq < HierarchySessions
          /\ CreateSession([type |-> "task", orchestrationId |-> o, parentSessionId |-> parent], fail)
    \/ \E id \in SessionIds : UpdateSession(id, [state |-> "completed"], FALSE)
    \/ \E id \in SessionIds : DeleteSession(id)
    \/ CleanupSessions
    \/ ArchiveSessions(0)
    \/ \E id \in SessionIds : CallFindRelatedSessions(id)
    \/ \E succeeds \in BOOLEAN : BackgroundSave(succeeds)
    \/ Tick

SpecHierarchy == InitEmpty /\ [][HierarchyNext]_vars

(***************************************************************************)
(* SpecTree: session trees of one orchestration and their deletion, every  *)
(* save succeeding.                                                        *)
(***************************************************************************)
TreeNext ==
    \/ /\ sessionSeq < TreeSessions
       /\ CreateSession([type |-> "planning", orchestrationId |-> "orch-1"], "none")
    \/ \E parent \in 1..sessionSeq :
          /\ sessionSeq < TreeSessions
          /\ CreateSession([type |-> "task", orchestrationId |-> "orch-1",
                            parentSessionId |-> parent], "none")
    \/ \E id \in 1..TreeSessions : DeleteSession(id)
    \/ BackgroundSave(TRUE)

SpecTree == InitEmpty /\ [][TreeNext]_vars

(***************************************************************************)
(* SpecFocus: sessions whose focus is changed on the session object, with  *)
(* every save succeeding.                                                  *)
(***************************************************************************)
Focuses == {"design", "review"}

FocusNext ==
    \/ /\ sessionSeq < FocusSessions
       /\ CreateSession([type |-> "planning", orchestrationId |-> "orch-1"], "none")
    \/ \E id \in 1..FocusSessions, newFocus \in Focuses : UpdateFocus(id, newFocus)
    \/ BackgroundSave(TRUE)
    \/ Tick

SpecFocus == InitEmpty /\ [][FocusNext]_vars

(***************************************************************************)
(* SpecSweep: sessions of two orchestrations brought to every state and    *)
(* swept by cleanupSessions; the saves of createSession and updateSession  *)
(* may fail.                                                               *)
(***************************************************************************)
SweepNext ==
    \/ \E o \in Orchs, fail \in {"none", "session"} :
          /\ sessionSeq < SweepSessions
          /\ CreateSession([type |-> "planning", orchestrationId |-> o], fail)
    \/ \E id \in 1..SweepSessions, st \in SessionState, failSave \in BOOLEAN :
          UpdateSession(id, [state |-> st], failSave)
    \/ CleanupSessions
    \/ BackgroundSave(TRUE)

SpecSweep == InitEmpty /\ [][SweepNext]_vars

(***************************************************************************)
(* SpecChain: tasks of equal priority, each new one either free or         *)
(* depending on the task created before it, completed one by one.          *)
(***************************************************************************)
ChainNext ==
    \/ /\ Cardinality(DOMAIN tasks) < ChainTasks
       /\ CreateTask([orchestrationId |-> "orch-1"])
    \/ /\ Cardinality(DOMAIN tasks) < ChainTasks
       /\ DOMAIN tasks # {}
       /\ CreateTask([orchestrationId |-> "orch-1",
                      dependencies |-> <<[taskId |-> FreshTaskId - 1, type |-> "finish_to_start"]>>])
    \/ \E id \in TaskIds : TaskExists(tasks, id) /\ UpdateTask(id, [status |-> "completed"])
    \/ CallGetNextTask("orch-1")
    \/ \E id \in TaskIds : CallCheckDependencies(id)
    \/ Tick

SpecChain == InitEmpty /\ [][ChainNext]_vars

(***************************************************************************)
(* SpecDependencies: task 1 in every status, and tasks that depend on it   *)
(* or on a task that does not exist, with every dependency type.           *)
(***************************************************************************)
MissingTaskId == NumTasks

DependencyChoices ==
    [taskId : {1, MissingTaskId}, type : DependencyType]

DependenciesNext ==
    \/ /\ DOMAIN tasks = {}
       /\ CreateTask([orchestrationId |-> "orch-1"])
    \/ \E d \in DependencyChoices :
          /\ DOMAIN tasks # {}
          /\ Cardinality(DOMAIN tasks) < DepTasks
          /\ CreateTask([orchestrationId |-> "orch-1", dependencies |-> <<d>>])
    \/ \E d \in DependencyChoices, ty \in DependencyType :
          /\ DOMAIN tasks # {}
          /\ Cardinality(DOMAIN tasks) < DepTasks
          /\ CreateTask([orchestrationId |-> "orch-1",
                         dependencies |-> <<d, [taskId |-> 1, type |-> ty]>>])
    \/ \E st \in TaskStatus : TaskExists(tasks, 1) /\ UpdateTask(1, [status |-> st])
    \/ \E id \in TaskIds : CallCheckDependencies(id)

SpecDependencies == InitEmpty /\ [][DependenciesNext]_vars

(***************************************************************************)
(* SpecExecute: tasks that depend on task 1 or on a missing task, handed   *)
(* to executeTask with every option.  One dependency type of each of the   *)
(* two rules (completed; in progress or completed) is used.                *)
(***************************************************************************)
ExecuteNext ==
    \/ /\ DOMAIN tasks = {}
       /\ CreateTask([orchestrationId |-> "orch-1"])
    \/ \E d \in DependencyChoices :
          /\ d.type \in {"finish_to_start", "start_to_finish"}
          /\ DOMAIN tasks # {}
          /\ Cardinality(DOMAIN tasks) < DepTasks
          /\ CreateTask([orchestrationId |-> "orch-1", dependencies |-> <<d>>])
    \/ \E st \in {"in_progress", "completed", "failed"} :
          TaskExists(tasks, 1) /\ UpdateTask(1, [status |-> st])
    \/ \E id \in 1..DepTasks, options \in ExecutionOptions :
          /\ sessionSeq + SessionsNeeded(options) <= WaitSessions
          /\ ExecuteTask(id, options, "none")

SpecExecute == InitEmpty /\ [][ExecuteNext]_vars

(***************************************************************************)
(* The records and the input/output outcomes the file-level specifications *)
(* draw from.  A state or status outside the enum makes a record invalid.  *)
(***************************************************************************)
SessionRecords ==
    {[ToStored(NewSession(id, [type |-> "planning", orchestrationId |-> "orch-1"], 1))
         EXCEPT !.state = st] : id \in RecordIds, st \in {"active", "completed", "unknown"}}

TaskRecords ==
    {[NewTask(id, [orchestrationId |-> "orch-1"], 1) EXCEPT !.status = st] :
        id \in RecordIds, st \in {"not_started", "unknown"}}

NoFailure ==
    [outcomes |-> [k \in 1..MaxRetries |-> "ok"], left |-> "untouched",
     copyFails |-> FALSE, rotateFails |-> FALSE]

\* Every attempt ends alike.
Always(outcome, left) ==
    [outcomes |-> [k \in 1..MaxRetries |-> outcome], left |-> left,
     copyFails |-> FALSE, rotateFails |-> FALSE]

WriteIos ==
    [outcomes : [1..MaxRetries -> {"ok", "EBUSY", "EIO"}], left : FilesLeft,
     copyFails : {FALSE}, rotateFails : {FALSE}]
        \cup {Always("crash", left) : left \in FilesLeft}

\* saveTask makes one attempt: what the later ones would do is immaterial.
TaskIos == {Always(outcome, left) : outcome \in WriteOutcomes, left \in FilesLeft}

(***************************************************************************)
(* SpecFiles: saves of valid and invalid records whose writes succeed,     *)
(* fail or are cut short.                                                  *)
(***************************************************************************)
FilesNext ==
    \/ \E session \in SessionRecords, io \in WriteIos : CallSaveSession(session, io)
    \/ \E task \in TaskRecords, io \in TaskIos : CallSaveTask(task, io)

SpecFiles == InitEmpty /\ [][FilesNext]_vars

(***************************************************************************)
(* SpecLoad: files left complete, cut short or empty by saves, and loads.  *)
(***************************************************************************)
LoadNext ==
    \/ \E session \in SessionRecords, io \in {NoFailure} \cup {Always("EIO", left) : left \in FilesLeft} :
          CallSaveSession(session, io)
    \/ \E task \in TaskRecords, io \in {NoFailure} \cup {Always("EIO", left) : left \in FilesLeft} :
          CallSaveTask(task, io)
    \/ \E id \in RecordIds \cup {NumRecords + 1} : CallLoadSession(id)
    \/ \E id \in RecordIds \cup {NumRecords + 1} : CallLoadTask(id)

InitNoBackups == InitWith([enableBackups |-> FALSE, maxBackups |-> MaxBackups])

SpecLoad == InitNoBackups /\ [][LoadNext]_vars

(***************************************************************************)
(* SpecRace: one task file and updateTask calls that overlap, every system *)
(* call succeeding.                                                        *)
(***************************************************************************)
RaceParams ==
    {[status |-> "in_progress"], [status |-> "failed"], [status |-> "completed"],
     [priority |-> "high"], [completionPercentage |-> 50]}

RaceNext ==
    \/ \E id \in RecordIds :
          /\ ~FileExists(disk, "tasks", id)
          /\ CallSaveTask(NewTask(id, [orchestrationId |-> "orch-1"], now), NoFailure)
    \/ \E c \in CallIds, id \in RecordIds, params \in RaceParams : UpdateTaskLoad(c, id, params)
    \/ \E c \in CallIds : UpdateTaskOpen(c)
    \/ \E c \in CallIds : UpdateTaskWrite(c)

SpecRace == InitNoBackups /\ [][RaceNext]_vars

(***************************************************************************)
(* SpecBackups: saves and deletes of valid session records under every     *)
(* backup configuration, at different times; the record writes succeed,    *)
(* the copy into the backups directory may fail.                           *)
(***************************************************************************)
CopyFailure == [NoFailure EXCEPT !.copyFails = TRUE]

BackupsNext ==
    \/ \E session \in SessionRecords, io \in {NoFailure, CopyFailure} :
          /\ ValidateSession(session).isValid
          /\ CallSaveSession(session, io)
    \/ \E id \in RecordIds, copyFails \in BOOLEAN : CallDeleteSession(id, copyFails, FALSE)
    \/ Tick

InitConfigured == \E storageConfig \in StorageConfigs : InitWith(storageConfig)

SpecBackups == InitConfigured /\ [][BackupsNext]_vars

(***************************************************************************)
(* SpecRoundTrip: sessions as toJSON hands them to saveSession, saved and  *)
(* loaded back.                                                            *)
(***************************************************************************)
JsonFields == SessionFields \cup {"taskId"}

\* session.toJSON() of a session created at time t and brought to state st.
JsonRecords(t) ==
    {[f \in JsonFields |->
        [NewSession(id, [type |-> ty, orchestrationId |-> "orch-1", taskId |-> tk,
                         parentSessionId |-> parent], t) EXCEPT !.state = st][f]] :
        id \in RecordIds, ty \in SessionType, tk \in {None, 1},
        parent \in {None, NumRecords + 1}, st \in SessionState}

RoundTripNext ==
    \/ \E session \in JsonRecords(now) : CallSaveThenLoadSession(session, NoFailure)
    \/ Tick

SpecRoundTrip == InitNoBackups /\ [][RoundTripNext]_vars

(***************************************************************************)
(* SpecRecover: task files left complete, cut short or empty by saves,     *)
(* loaded and handed to the recovery.                                      *)
(***************************************************************************)
RecoverNext ==
    \/ \E task \in TaskRecords, io \in {NoFailure} \cup {Always("EIO", left) : left \in FilesLeft} :
          CallSaveTask(task, io)
    \/ \E id \in RecordIds : CallLoadTask(id)
    \/ \E id \in RecordIds : CallRecoverTaskManifestFile(id)
    \/ Tick

SpecRecover == InitNoBackups /\ [][RecoverNext]_vars

(***************************************************************************)
(* SpecRotation: the task files of several records handed to the recovery  *)
(* one after the other, each time at a later clock value, until the        *)
(* backups directory holds more than MAX_BACKUPS copies.                   *)
(***************************************************************************)
CopiedNow == \E x \in backups : x.type = "recovery" /\ x.stamp = now

RotationNext ==
    \/ \E id \in 1..RotateRecords :
          /\ ~FileExists(disk, "tasks", id)
          /\ CallSaveTask(NewTask(id, [orchestrationId |-> "orch-1"], 1), NoFailure)
    \/ \E id \in 1..RotateRecords :
          /\ FileExists(disk, "tasks", id)
          /\ ~CopiedNow
          /\ CallRecoverTaskManifestFile(id)
    \/ CopiedNow /\ TickUntil(MAX_BACKUPS + 1)

SpecRotation == InitNoBackups /\ [][RotationNext]_vars

(***************************************************************************)
(* SpecBackupFaults: saves and deletes of one record with backups enabled, *)
(* the copy or the rotation of the backups failing at will.  The backups   *)
(* of different records do not meet (see RecordIds).                       *)
(***************************************************************************)
BackupFaults == [copyFails : BOOLEAN, rotateFails : BOOLEAN]

BackupFaultsNext ==
    \/ \E session \in SessionRecords, f \in BackupFaults :
          /\ session.id = 1
          /\ ValidateSession(session).isValid
          /\ CallSaveSession(session, [NoFailure EXCEPT !.copyFails = f.copyFails,
                                                        !.rotateFails = f.rotateFails])
    \/ \E f \in BackupFaults : CallDeleteSession(1, f.copyFails, f.rotateFails)
    \/ Tick

\* Backups are enabled, with every maximum.
InitBackupsEnabled ==
    \E maxBackups \in 0..MaxBackups :
        InitWith([enableBackups |-> TRUE, maxBackups |-> maxBackups])

SpecBackupFaults == InitBackupsEnabled /\ [][BackupFaultsNext]_vars

(***************************************************************************)
(* Properties.                                                             *)
(***************************************************************************)

\* C1: updateTask with a new status succeeds exactly when the pair (stored
\* status, new status) is in the allowed transition table, and is rejected
\* otherwise.
C1_TaskTransitionTableEnforced ==
    (res.op = "updateTask" /\ res.before \in TaskStatus /\ res.requested \in TaskStatus) =>
        (res.outcome = "updated" <=> ValidTaskStatusTransition(res.before, res.requested))

\* C1: a completed task was set back to not_started and the call succeeded.
C1_Witness ==
    /\ res.op = "updateTask"
    /\ res.before = "completed"
    /\ res.requested = "not_started"
    /\ res.outcome = "updated"

\* C2: updateState to a different state succeeds exactly when the pair (current
\* state, new state) is in the session transition table, and is rejected
\* otherwise.
C2_SessionTransitionTableEnforced ==
    (/\ res.op = "updateSession"
     /\ "state" \in DOMAIN res.params
     /\ res.before \in SessionState
     /\ res.before # res.params.state) =>
        (res.outcome = "updated" <=> ValidStateTransition(res.before, res.params.state))

\* C2: a completed session was made active again and the call succeeded.
C2_Witness ==
    /\ res.op = "updateSession"
    /\ res.before = "completed"
    /\ res.params.state = "active"
    /\ res.outcome = "updated"
    /\ store[res.id].state = "active"

\* C3: once a task's stored status is completed, no updateTask, executeTask or
\* completeTask call changes it.
C3_CompletedIsTerminal ==
    [][\A id \in DOMAIN tasks :
          tasks[id].status = "completed" => tasks'[id].status = "completed"]_vars

\* C3: executeTask succeeded on a completed task and left it in_progress.
C3_Witness ==
    /\ res.op = "executeTask"
    /\ res.before = "completed"
    /\ res.result.success
    /\ tasks[res.taskId].status = "in_progress"

\* C4: a second updateState call with the same state and reason succeeds and
\* leaves completedAt and failureReason as the first call left them.
C4_RepeatedUpdateStateChangesNothing ==
    (res.op = "updateSession" /\ res.repeated /\ "state" \in DOMAIN res.params) =>
        /\ res.outcome = "updated"
        /\ CacheGet(sessions, res.id).completedAt = res.completedAtBefore
        /\ CacheGet(sessions, res.id).failureReason = res.failureReasonBefore

\* C4: the repeated call moved completedAt in the registry and in the store.
C4_Witness ==
    /\ res.op = "updateSession"
    /\ res.repeated
    /\ res.outcome = "updated"
    /\ res.params.state = "completed"
    /\ CacheGet(sessions, res.id).completedAt # res.completedAtBefore
    /\ store[res.id].completedAt # res.completedAtBefore

\* c is listed as a child in the stored record of p exactly when a stored
\* session c names p as its parent.
LinksConsistent ==
    \A p \in DOMAIN store, c \in SessionIds :
        HasChild(store[p], c) <=> (SessionStored(store, c) /\ store[c].parentSessionId = p)

\* A step of a registry operation: neither the clock nor the landing of a
\* background write.
OperationStep == now' = now /\ Len(pending') >= Len(pending)

\* C5: every completed createSession, deleteSession, cleanupSessions and
\* archiveSessions call that starts with the stored parent and child links in
\* agreement ends with them in agreement.
C5_ParentChildLinksConsistent ==
    [][(/\ LinksConsistent
        /\ OperationStep
        /\ res'.op \in {"createSession", "deleteSession", "cleanupSessions", "archiveSessions"}
        /\ res'.outcome = "ok") => LinksConsistent']_vars

\* C5: cleanupSessions removed a session whose id is still listed by its
\* stored parent.
C5_Witness ==
    /\ res.op = "cleanupSessions"
    /\ res.removedCount > 0
    /\ \E p \in DOMAIN store : \E c \in SessionIds :
          HasChild(store[p], c) /\ ~SessionStored(store, c) /\ ~CacheHas(sessions, c)

\* C6: when createSession with a stored parent ends, either the child is
\* stored and the parent's stored record lists it, or the child is not stored
\* and the parent's stored record is as it was.
C6_CreateSessionBothOrNeither ==
    [][(/\ res'.op = "createSession"
        /\ sessionSeq' = sessionSeq + 1
        /\ SessionStored(store, res'.parentSessionId)) =>
           \/ /\ SessionStored(store', res'.id)
              /\ SessionStored(store', res'.parentSessionId)
              /\ HasChild(store'[res'.parentSessionId], res'.id)
           \/ /\ ~SessionStored(store', res'.id)
              /\ SessionStored(store', res'.parentSessionId)
              /\ store'[res'.parentSessionId] = store[res'.parentSessionId]]_vars

\* C6: createSession ended with an error, the child is stored and the stored
\* parent does not list it.
C6_Witness ==
    /\ res.op = "createSession"
    /\ res.outcome = "error"
    /\ res.parentStored
    /\ SessionStored(store, res.id)
    /\ SessionStored(store, res.parentSessionId)
    /\ ~HasChild(store[res.parentSessionId], res.id)

\* The session object the registry answers with for an id it holds.
Known(sessionId) ==
    IF CacheHas(sessions', sessionId) THEN CacheGet(sessions', sessionId) ELSE store'[sessionId]

\* C7: after createSession created C under a stored parent P,
\* findRelatedSessions(C) names P as the parent and P lists C as a child.
C7_ChildFindsItsParent ==
    [][(/\ res.op = "createSession"
        /\ res.outcome = "ok"
        /\ res.parentStored
        /\ res'.op = "findRelatedSessions"
        /\ res'.id = res.id) =>
           /\ res'.outcome = "ok"
           /\ res'.parent = res.parentSessionId
           /\ HasChild(Known(res.parentSessionId), res.id)]_vars

\* C7: findRelatedSessions found no parent for a session whose parent is
\* stored and lists it.
C7_Witness ==
    /\ res.op = "findRelatedSessions"
    /\ res.outcome = "ok"
    /\ res.parent = None
    /\ SessionStored(store, res.id)
    /\ store[res.id].parentSessionId # None
    /\ SessionStored(store, store[res.id].parentSessionId)
    /\ HasChild(store[store[res.id].parentSessionId], res.id)

(***************************************************************************)
(* The dependency relation of one orchestration, stated without the        *)
(* search: an edge from -> to for every dependency of task `to` on a task  *)
(* `from` of the same orchestration.                                       *)
(***************************************************************************)
TasksOf(orchestrationId) == {id \in DOMAIN tasks : tasks[id].orchestrationId = orchestrationId}

EdgesOf(orchestrationId) ==
    {e \in TasksOf(orchestrationId) \X TasksOf(orchestrationId) :
        \E k \in 1..Len(tasks[e[2]].dependencies) : tasks[e[2]].dependencies[k].taskId = e[1]}

RECURSIVE TransitiveClosure(_)
TransitiveClosure(R) ==
    LET next == R \cup UNION {{<<e[1], f[2]>> : f \in {g \in R : g[1] = e[2]}} : e \in R}
    IN IF next = R THEN R ELSE TransitiveClosure(next)

HasDirectedCycle(orchestrationId) ==
    \E id \in TasksOf(orchestrationId) : <<id, id>> \in TransitiveClosure(EdgesOf(orchestrationId))

\* C8: validateDependencies reports at least one cycle exactly when the
\* dependency edges among the orchestration's tasks contain a directed cycle.
C8_CycleReportedIffCyclic ==
    res.op = "validateTaskDependencies" =>
        ((res.result.cycles # <<>>) <=> HasDirectedCycle(res.orchestrationId))

\* C8: a cyclic graph of at least two tasks was validated while a task of
\* another orchestration was stored.
C8_Witness ==
    /\ res.op = "validateTaskDependencies"
    /\ res.result.cycles # <<>>
    /\ Cardinality(TasksOf(res.orchestrationId)) >= 2
    /\ DOMAIN tasks # TasksOf(res.orchestrationId)

\* C9: for an acyclic graph, every dependency edge from -> to between tasks of
\* the orchestration has `from` before `to` in the execution order.
C9_OrderIsTopological ==
    (res.op = "getTaskExecutionOrder" /\ ~HasDirectedCycle(res.orchestrationId)) =>
        \A e \in EdgesOf(res.orchestrationId) :
            /\ e[1] \in Range(res.result)
            /\ e[2] \in Range(res.result)
            /\ \A i, j \in 1..Len(res.result) :
                  (res.result[i] = e[1] /\ res.result[j] = e[2]) => i < j

\* C9: an order was computed for an acyclic graph with a chain of two edges.
C9_Witness ==
    /\ res.op = "getTaskExecutionOrder"
    /\ ~HasDirectedCycle(res.orchestrationId)
    /\ \E a, b, c \in TasksOf(res.orchestrationId) :
          /\ <<a, b>> \in EdgesOf(res.orchestrationId)
          /\ <<b, c>> \in EdgesOf(res.orchestrationId)
    /\ Len(res.result) = 3

NotStartedOf(orchestrationId) ==
    {id \in TasksOf(orchestrationId) : tasks[id].status = "not_started"}

HasDependencies(id) == Len(tasks[id].dependencies) > 0

\* critical > high > medium > low.
StrictlyHigher(p, q) ==
    <<p, q>> \in {<<"critical", "high">>, <<"critical", "medium">>, <<"critical", "low">>,
                  <<"high", "medium">>, <<"high", "low">>, <<"medium", "low">>}

IsChain(done) ==
    /\ DOMAIN tasks = {1, 2, 3}
    /\ tasks[1].dependencies = <<>>
    /\ tasks[2].dependencies = <<[taskId |-> 1, type |-> "finish_to_start"]>>
    /\ tasks[3].dependencies = <<[taskId |-> 2, type |-> "finish_to_start"]>>
    /\ \A id \in {1, 2, 3} :
          /\ tasks[id].priority = tasks[1].priority
          /\ tasks[id].status = IF id \in done THEN "completed" ELSE "not_started"

\* C11: in the chain A, B, C getNextTask returns A; once A is completed,
\* checkDependencies(B) reports allSatisfied and getNextTask returns B.
C11_ChainAdvancesInOrder ==
    /\ (res.op = "getNextTask" /\ IsChain({})) => res.result = 1
    /\ (res.op = "checkDependencies" /\ res.taskId = 2 /\ IsChain({1})) =>
           (res.outcome = "ok" /\ res.result.allSatisfied)
    /\ (res.op = "getNextTask" /\ IsChain({1})) => res.result = 2

\* C11: with A completed, getNextTask returned C, whose dependency on B is
\* not satisfied.
C11_Witness ==
    /\ res.op = "getNextTask"
    /\ IsChain({1})
    /\ res.result = 3
    /\ ~CheckDependencies(tasks, 3).allSatisfied

\* What the dependency types ask of the task depended on.
Satisfies(d) ==
    /\ d.taskId \in DOMAIN tasks
    /\ \/ d.type \in {"finish_to_start", "finish_to_finish"} /\ tasks[d.taskId].status = "completed"
       \/ /\ d.type \in {"start_to_start", "start_to_finish"}
          /\ tasks[d.taskId].status \in {"in_progress", "completed"}

\* C12: checkDependencies counts a dependency as satisfied exactly when the
\* task depended on exists and is completed (finish_to_start,
\* finish_to_finish) or in progress or completed (start_to_start,
\* start_to_finish); allSatisfied is true exactly when none is unsatisfied.
C12_DependencySatisfactionByType ==
    (res.op = "checkDependencies" /\ res.outcome = "ok") =>
        LET deps == tasks[res.taskId].dependencies
        IN /\ res.satisfiedDependencies = SelectSeq(deps, Satisfies)
           /\ res.result.unsatisfiedDependencies = SelectSeq(deps, LAMBDA d : ~Satisfies(d))
           /\ res.result.allSatisfied <=> (\A i \in 1..Len(deps) : Satisfies(deps[i]))

\* C12: a start_to_start dependency on a task in progress was counted as
\* satisfied next to a dependency on a missing task, and allSatisfied is false.
C12_Witness ==
    /\ res.op = "checkDependencies"
    /\ res.outcome = "ok"
    /\ Len(res.satisfiedDependencies) = 1
    /\ res.satisfiedDependencies[1].type = "start_to_start"
    /\ tasks[1].status = "in_progress"
    /\ \E i \in 1..Len(res.result.unsatisfiedDependencies) :
          res.result.unsatisfiedDependencies[i].taskId \notin DOMAIN tasks
    /\ ~res.result.allSatisfied

(***************************************************************************)
(* Saving, loading and backing up record files.                            *)
(***************************************************************************)

\* Does the record of the last save pass its kind's shape validation?
SavedRecordIsValid(r) ==
    IF r.kind = "sessions" THEN ValidateSession(r.record).isValid
    ELSE ValidateTask(r.record).isValid

\* C13: a save of a record that fails shape validation fails with
\* ValidationError and writes nothing: the record files and the backup
\* files are after the save what they were before it, for session records
\* and for task records alike.
C13_InvalidSaveWritesNothing ==
    [][(res'.op = "save" /\ ~SavedRecordIsValid(res'))
          => /\ res'.error = "ValidationError"
             /\ disk' = disk
             /\ backups' = backups]_vars

\* A task record with a status outside TaskStatus was saved without error
\* and is now the content of its file.
C13_Witness ==
    /\ res.op = "save"
    /\ res.kind = "tasks"
    /\ ~ValidateTask(res.record).isValid
    /\ res.error = "none"
    /\ FileExists(disk, "tasks", res.id)
    /\ disk[<<"tasks", res.id>>] = Document(res.record)

\* C14: load returns none exactly when no file exists for the id; when the
\* file exists but cannot be parsed, load fails with CorruptionError (so it
\* returns neither none nor a record).
C14_LoadNoneIffAbsent ==
    res.op = "load"
        => LET name == <<res.kind, res.id>>
               present == name \in DOMAIN disk
           IN /\ (res.result.outcome = "null") <=> ~present
              /\ (present /\ ~Parses(disk[name])) => res.result.outcome = "CorruptionError"

\* A task file that a failed write left partial was loaded, and the load
\* failed with CorruptionError.
C14_Witness ==
    /\ res.op = "load"
    /\ res.kind = "tasks"
    /\ FileExists(disk, "tasks", res.id)
    /\ disk[<<"tasks", res.id>>].text = "partial"
    /\ res.result.outcome = "CorruptionError"

\* The document a successful save of the record leaves in its file.
NewVersion(r) ==
    IF r.kind = "sessions" THEN Document(ValidateSession(r.record).session)
    ELSE Document(r.record)

\* C15: record writes are atomic.  Whenever a save, failed, interrupted or
\* successful, acts on a record whose file holds a complete document, the
\* file holds afterwards either that same document or the complete new
\* version, never a partial or an empty one.
C15_WritesAreAtomic ==
    [][(/\ res'.op = "save"
        /\ FileExists(disk, res'.kind, res'.id)
        /\ Parses(disk[<<res'.kind, res'.id>>]))
          => /\ FileExists(disk', res'.kind, res'.id)
             /\ disk'[<<res'.kind, res'.id>>]
                   \in {disk[<<res'.kind, res'.id>>], NewVersion(res')}]_vars

\* A save of a session failed on an input/output error; the backup taken
\* just before shows the complete previous version, and the record file is
\* now empty.
C15_Witness ==
    /\ res.op = "save"
    /\ res.kind = "sessions"
    /\ res.error = "StorageError"
    /\ res.cause = "EIO"
    /\ \E b \in BackupsOf(backups, "sessions", res.id) : b.stamp = now /\ Parses(b.content)
    /\ disk[<<"sessions", res.id>>] = EmptyFile

\* The attempts the retry rule allows for a sequence of outcomes: up to the
\* first attempt that does not fail on the file lock, MaxRetries if none.
AttemptsAllowed(outcomes) ==
    IF \A k \in 1..MaxRetries : outcomes[k] = "EBUSY" THEN MaxRetries
    ELSE CHOOSE k \in 1..MaxRetries :
            /\ outcomes[k] # "EBUSY"
            /\ \A j \in 1..(k - 1) : outcomes[j] = "EBUSY"

\* C18: every record write performed by save is retried only on the
\* file-lock error.  A write that keeps failing with it is attempted three
\* times and then fails; a write succeeds as soon as one attempt succeeds;
\* any other error is raised at once, with no further attempt.
C18_RetryOnlyOnFileLock ==
    (res.op = "save" /\ res.attempts > 0 /\ res.error # "crash")
        => LET allowed == AttemptsAllowed(res.outcomes)
           IN /\ res.attempts = allowed
              /\ (res.error = "none") <=> (res.outcomes[allowed] = "ok")
              /\ (\A k \in 1..MaxRetries : res.outcomes[k] = "EBUSY")
                    => (res.attempts = 3 /\ res.error = "StorageError")

\* A task write that met the file lock was attempted once and failed.
C18_Witness ==
    /\ res.op = "save"
    /\ res.kind = "tasks"
    /\ res.outcomes[1] = "EBUSY"
    /\ res.attempts = 1
    /\ res.error = "StorageError"
    /\ res.cause = "EBUSY"

(***************************************************************************)
(* The registry's cache and the events of its sessions.                    *)
(***************************************************************************)

\* C16: the cache never diverges from the store.  Whenever no registry
\* operation and no write is in progress, every session the cache holds is
\* in the store, and what the registry returns for its id equals the stored
\* record.
C16_CacheMatchesStore ==
    pending = <<>>
        => \A i \in 1..Len(sessions) :
              /\ SessionStored(store, sessions[i].id)
              /\ ToStored(sessions[i]) = store[sessions[i].id]

\* createSession failed on its save: with nothing in flight the registry
\* still returns the session, and the store has no record of it.
C16_Witness ==
    /\ res.op = "createSession"
    /\ res.outcome = "error"
    /\ pending = <<>>
    /\ CacheHas(sessions, res.id)
    /\ ~SessionStored(store, res.id)

\* C17: after updateFocus on a session, once all pending writes have
\* finished, the stored record of that same session carries the new focus
\* and the refreshed lastActivityAt, however many sessions the registry
\* holds.
C17_MutationIsPersisted ==
    (res.op = "updateFocus" /\ pending = <<>>)
        => /\ SessionStored(store, res.id)
           /\ store[res.id].currentFocus = res.newFocus
           /\ store[res.id].lastActivityAt = res.at

\* The focus of the second session of the registry was changed, the write
\* the event started has finished, and the stored record of that session
\* still has the old focus while the object has the new one.
C17_Witness ==
    /\ res.op = "updateFocus"
    /\ pending = <<>>
    /\ Len(sessions) = 2
    /\ sessions[2].id = res.id
    /\ sessions[2].currentFocus = res.newFocus
    /\ SessionStored(store, res.id)
    /\ store[res.id].currentFocus # res.newFocus

(***************************************************************************)
(* Backups.                                                                *)
(***************************************************************************)

\* The step is a save or a delete of a session that ended without error.
SessionStep(ops) ==
    /\ res'.op \in ops
    /\ res'.kind = "sessions"
    /\ res'.error = "none"
    /\ now' = now

\* The backup an operation on the record is expected to leave: stamped with
\* the time of the operation, holding what the record file held before it.
LeavesBackup ==
    \E b \in BackupsOf(backups', "sessions", res'.id) :
        /\ b.stamp = now
        /\ b.content = disk[<<"sessions", res'.id>>]

StampsOf(b, id) == {x.stamp : x \in BackupsOf(b, "sessions", id)}

\* C20: after every save with backups enabled the backups kept for the
\* record are at most maxBackups, and the backups the save removed are
\* older than every backup it kept.
C20_BackupsWithinMaximum ==
    [][(SessionStep({"save"}) /\ config.enableBackups)
          => /\ Cardinality(BackupsOf(backups', "sessions", res'.id)) <= config.maxBackups
             /\ \A gone \in StampsOf(backups, res'.id) \ StampsOf(backups', res'.id) :
                   \A kept \in StampsOf(backups', res'.id) : gone < kept]_vars

\* Under maxBackups = 0 with backups enabled a save has left two backups of
\* the record.
C20_Witness ==
    /\ res.op = "save"
    /\ res.error = "none"
    /\ config.enableBackups
    /\ config.maxBackups = 0
    /\ Cardinality(BackupsOf(backups, "sessions", res.id)) = 2

\* C21: when creating or rotating the backup fails during a save or a
\* delete, the primary mutation is carried out all the same and the
\* operation does not fail: the saved record is the content of its file, the
\* deleted record's file is gone, and no error is raised.
C21_BackupFailureDoesNotBlock ==
    [][(/\ res'.op \in {"save", "delete"}
        /\ res'.kind = "sessions"
        /\ now' = now
        /\ config.enableBackups
        /\ FileExists(disk, "sessions", res'.id)
        /\ res'.copyFails \/ res'.rotateFails)
          => /\ res'.error = "none"
             /\ IF res'.op = "save"
                THEN /\ FileExists(disk', "sessions", res'.id)
                     /\ disk'[<<"sessions", res'.id>>] = NewVersion(res')
                ELSE ~FileExists(disk', "sessions", res'.id)]_vars

\* An existing record was deleted while the copy into the backups directory
\* failed: the delete raised no error, the file is gone, no backup exists.
C21_Witness ==
    /\ res.op = "delete"
    /\ res.copyFails
    /\ config.enableBackups
    /\ res.error = "none"
    /\ ~FileExists(disk, "sessions", res.id)
    /\ backups = {}

(***************************************************************************)
(* Round trip and recovery.                                                *)
(***************************************************************************)

\* The field is undefined in the record (JSON leaves such a key out).
IsAbsent(r, f) ==
    \/ f \notin DOMAIN r
    \/ f \in {"taskId", "completedAt", "parentSessionId"} /\ r[f] = None
    \/ f = "failureReason" /\ r[f] = Undefined

\* Deep equality of two session records.
SameRecord(r, l) ==
    \A f \in DOMAIN r \cup DOMAIN l :
        IF IsAbsent(r, f) \/ IsAbsent(l, f) THEN IsAbsent(r, f) /\ IsAbsent(l, f)
        ELSE r[f] = l[f]

\* C22: for every valid record r, save(kind, r) followed by
\* load(kind, r.id) returns a record equal to r in every field.
C22_SaveLoadRoundTrip ==
    (res.op = "saveThenLoad" /\ ValidateSession(res.record).isValid)
        => /\ res.error = "none"
           /\ res.result.outcome = "loaded"
           /\ SameRecord(res.record, res.result.record)

\* A session with a taskId was saved and loaded back: the loaded record
\* agrees with it on its id and state and has no taskId.
C22_Witness ==
    /\ res.op = "saveThenLoad"
    /\ res.record.taskId = 1
    /\ res.result.outcome = "loaded"
    /\ res.result.record.id = res.record.id
    /\ res.result.record.state = res.record.state
    /\ IsAbsent(res.result.record, "taskId")

\* C23: for a saved task file that was cut short mid-document, load fails
\* with a corruption error, and recovery returns a reconstructed record
\* with the same id, status not_started and the reconstruction flag set.
C23_TruncatedTaskIsReconstructed ==
    (res.op = "recover" /\ res.before = "partial")
        => /\ res.load.outcome = "CorruptionError"
           /\ res.result.success
           /\ "recoveredData" \in DOMAIN res.result
           /\ res.result.recoveredData.id = res.id
           /\ res.result.recoveredData.status = "not_started"
           /\ "reconstructed" \in DOMAIN res.result.recoveredData
           /\ res.result.recoveredData.reconstructed

\* The recovery of a task file cut short answered that it could not parse
\* the file; the file is still cut short and a copy of it was set aside.
C23_Witness ==
    /\ res.op = "recover"
    /\ res.before = "partial"
    /\ res.load.outcome = "CorruptionError"
    /\ ~res.result.success
    /\ disk[<<"tasks", res.id>>].text = "partial"
    /\ \E b \in backups : b.type = "recovery" /\ b.id = res.id /\ b.content.text = "partial"

(***************************************************************************)
(* cleanupSessions.                                                        *)
(***************************************************************************)

\* The state the registry reports for a session: the cached object's, or
\* else the stored record's.
ViewedState(cache, st, id) ==
    IF CacheHas(cache, id) THEN CacheGet(cache, id).state
    ELSE IF SessionStored(st, id) THEN st[id].state
    ELSE "absent"

FinishedStates == {"completed", "failed"}

\* C24: when cleanupSessions returns, no session in state completed or
\* failed remains in the store or in the cache, whatever its orchestration,
\* and every session that was active or suspended is still where it was.
C24_CleanupRemovesFinished ==
    [][(OperationStep /\ res'.op = "cleanupSessions")
          => /\ \A id \in DOMAIN store' : store'[id].state \notin FinishedStates
             /\ \A i \in 1..Len(sessions') : sessions'[i].state \notin FinishedStates
             /\ \A id \in 1..sessionSeq :
                   ViewedState(sessions, store, id) \in {"active", "suspended"}
                      => /\ SessionStored(store, id) => SessionStored(store', id)
                         /\ CacheHas(sessions, id) => CacheHas(sessions', id)]_vars

\* cleanupSessions has returned and the cache still holds a failed session,
\* one whose saves failed, so that the store never had it.
C24_Witness ==
    /\ res.op = "cleanupSessions"
    /\ \E i \in 1..Len(sessions) :
          /\ sessions[i].state = "failed"
          /\ ~SessionStored(store, sessions[i].id)
    /\ pending = <<>>

(***************************************************************************)
(* Levels of the dependency graph.                                         *)
(***************************************************************************)
NodeIds(g) == {g.nodes[i].id : i \in 1..Len(g.nodes)}

LevelOf(g, id) == g.nodes[CHOOSE i \in 1..Len(g.nodes) : g.nodes[i].id = id].level

\* The nodes of the graph that the node has an edge from.
Predecessors(g, id) ==
    {g.edges[k].from : k \in {j \in 1..Len(g.edges) : g.edges[j].to = id}} \cap NodeIds(g)

HighestLevel(g, S) == CHOOSE l \in {LevelOf(g, p) : p \in S} : \A p \in S : LevelOf(g, p) <= l

\* C25: in an acyclic graph computeLevels gives level 0 to every task with
\* no predecessors and, to every other task, 1 + the highest level of its
\* predecessors.
C25_LevelsFollowPredecessors ==
    (res.op = "getTaskDependencyGraph" /\ ~HasDirectedCycle(res.orchestrationId))
        => \A id \in NodeIds(res.result) :
              LevelOf(res.result, id) =
                  IF Predecessors(res.result, id) = {} THEN 0
                  ELSE 1 + HighestLevel(res.result, Predecessors(res.result, id))

\* A task at level 0 that has a predecessor in the graph: the predecessor
\* depends on a task that is not in the orchestration.
C25_Witness ==
    /\ res.op = "getTaskDependencyGraph"
    /\ ~HasDirectedCycle(res.orchestrationId)
    /\ \E id \in NodeIds(res.result) :
          /\ LevelOf(res.result, id) = 0
          /\ \E p \in Predecessors(res.result, id) :
                \E k \in 1..Len(res.result.edges) :
                    /\ res.result.edges[k].to = p
                    /\ res.result.edges[k].from \notin NodeIds(res.result)

(***************************************************************************)
(* The cycles that validateTaskDependencies reports.                       *)
(***************************************************************************)
DependsOn(a, b) ==
    /\ a \in DOMAIN tasks
    /\ \E k \in 1..Len(tasks[a].dependencies) : tasks[a].dependencies[k].taskId = b

IsClosedPath(c) ==
    /\ Len(c) >= 2
    /\ c[1] = c[Len(c)]
    /\ \A i \in 1..(Len(c) - 1) : DependsOn(c[i], c[i + 1])

\* C26: every cycle that validateDependencies reports starts and ends with
\* the same task id, and each of its elements has a dependency on the
\* element that follows it.
C26_ReportedCyclesAreClosed ==
    res.op = "validateTaskDependencies" =>
        \A i \in 1..Len(res.result.cycles) : IsClosedPath(res.result.cycles[i])

\* Two cycles are reported and the second one does not end where it starts.
C26_Witness ==
    /\ res.op = "validateTaskDependencies"
    /\ Len(res.result.cycles) = 2
    /\ IsClosedPath(res.result.cycles[1])
    /\ res.result.cycles[2][1] # res.result.cycles[2][Len(res.result.cycles[2])]

(***************************************************************************)
(* Dependencies on tasks that are not in the orchestration.                *)
(***************************************************************************)
\* The positions <<task, k>> of the dependencies that name no task of the
\* orchestration.
DanglingPositions(orchestrationId) ==
    {p \in TasksOf(orchestrationId) \X (1..MaxEdges) :
        /\ p[2] <= Len(tasks[p[1]].dependencies)
        /\ tasks[p[1]].dependencies[p[2]].taskId \notin TasksOf(orchestrationId)}

\* C27: invalidDependencies holds exactly the dependencies that name a task
\* not in the orchestration, one entry each, and isValid is false whenever
\* there is one, with or without a cycle.
C27_InvalidDependenciesExact ==
    res.op = "validateTaskDependencies" =>
        LET invalid == res.result.invalidDependencies
            dangling == DanglingPositions(res.orchestrationId)
        IN /\ Range(invalid) =
                 {<<p[1], tasks[p[1]].dependencies[p[2]].taskId>> : p \in dangling}
           /\ Len(invalid) = Cardinality(dangling)
           /\ (invalid # <<>>) => ~res.result.isValid

\* A graph without a cycle was found invalid for a dependency on a task that
\* is stored under another orchestration.
C27_Witness ==
    /\ res.op = "validateTaskDependencies"
    /\ res.result.cycles = <<>>
    /\ ~res.result.isValid
    /\ \E i \in 1..Len(res.result.invalidDependencies) :
          /\ res.result.invalidDependencies[i][2] \in DOMAIN tasks
          /\ res.result.invalidDependencies[i][1] \in TasksOf(res.orchestrationId)

(***************************************************************************)
(* Parent and child belong to one orchestration.                           *)
(***************************************************************************)
\* The stored sessions whose parent is stored under another orchestration.
ForeignChildren ==
    {id \in DOMAIN store :
        /\ store[id].parentSessionId # None
        /\ SessionStored(store, store[id].parentSessionId)
        /\ store[store[id].parentSessionId].orchestrationId # store[id].orchestrationId}

\* C28: every stored session whose parentSessionId is X has the same
\* orchestrationId as the stored session X.
C28_ChildSharesOrchestration == ForeignChildren = {}

\* createSession filed a child of another orchestration under a stored
\* parent, and the parent lists it.
C28_Witness ==
    /\ res.op = "createSession"
    /\ res.outcome = "ok"
    /\ res.id \in ForeignChildren
    /\ HasChild(store[store[res.id].parentSessionId], res.id)

(***************************************************************************)
(* Updates of one record that overlap.                                     *)
(***************************************************************************)
Written(id) == {c \in CallIds : calls[c].pc = "done" /\ calls[c].id = id}

AtRest == \A c \in CallIds : calls[c].pc \notin {"loaded", "opened"}

\* C29: once the overlapping updates of a record have all finished, its file
\* holds the complete record that one of them wrote.
C29_LaterWriteWins ==
    \A id \in RecordIds :
        (AtRest /\ Written(id) # {}) =>
            \E c \in Written(id) : disk[<<"tasks", id>>] = Document(calls[c].task)

\* Two updates of one task have both returned, and the file is the shorter
\* document followed by the end of the longer one.
C29_Witness ==
    \E id \in RecordIds :
        /\ Written(id) = CallIds
        /\ disk[<<"tasks", id>>].text = "mixed"
        /\ LoadTaskFile(disk, id).outcome = "CorruptionError"

(***************************************************************************)
(* The range of the stored progress.                                       *)
(***************************************************************************)
\* C30: every stored task has progress.completionPercentage between 0 and
\* 100 inclusive, after any sequence of createTask, updateTask, executeTask
\* and completeTask calls.
C30_PercentageInRange ==
    \A id \in DOMAIN tasks : tasks[id].completionPercentage \in 0..100

\* updateTask stored a percentage outside the range.
C30_Witness ==
    /\ res.op = "updateTask"
    /\ res.outcome = "updated"
    /\ \E id \in DOMAIN tasks : tasks[id].completionPercentage \notin 0..100

(***************************************************************************)
(* The timestamps that updateTask sets.                                    *)
(***************************************************************************)
BecomesCompleted(id) == tasks[id].status # "completed" /\ tasks'[id].status = "completed"

LeavesNotStarted(id) == tasks[id].status = "not_started" /\ tasks'[id].status # "not_started"

\* C31: an updateTask that changes the status to completed leaves completedAt
\* set; one that changes it from not_started to another status leaves
\* startedAt set; one that does neither changes neither timestamp.
C31_UpdateTaskStampsTimes ==
    [][(res'.op = "updateTask" /\ res'.outcome = "updated" /\ now' = now) =>
          \A id \in DOMAIN tasks :
              /\ BecomesCompleted(id) => tasks'[id].completedAt # None
              /\ LeavesNotStarted(id) => tasks'[id].startedAt # None
              /\ (~BecomesCompleted(id) /\ ~LeavesNotStarted(id)) =>
                    /\ tasks'[id].completedAt = tasks[id].completedAt
                    /\ tasks'[id].startedAt = tasks[id].startedAt]_vars

\* A task started at one time was completed at a later one, and a second
\* request for a started status left its startedAt where it was.
C31_Witness ==
    /\ res.op = "updateTask"
    /\ res.before = "completed"
    /\ res.requested = "in_progress"
    /\ \E id \in DOMAIN tasks :
          /\ tasks[id].status = "in_progress"
          /\ tasks[id].startedAt # None
          /\ tasks[id].completedAt # None
          /\ tasks[id].startedAt < tasks[id].completedAt

(***************************************************************************)
(* executeTask and the dependencies.                                       *)
(***************************************************************************)
AllSatisfied(id) ==
    \A i \in 1..Len(tasks[id].dependencies) : Satisfies(tasks[id].dependencies[i])

NothingCreated ==
    /\ sessionSeq' = sessionSeq
    /\ sessions' = sessions
    /\ store' = store
    /\ pending' = pending

\* C32: without forceExecution, executeTask changes the task only if every
\* dependency is satisfied under the checkDependencies rules; if one is
\* unsatisfied or names a missing task, the stored record stays as it is
\* and no session is created.
C32_ExecuteWaitsForDependencies ==
    [][(/\ OperationStep
        /\ res'.op = "executeTask"
        /\ ~res'.forceExecution
        /\ res'.taskId \in DOMAIN tasks) =>
          /\ tasks'[res'.taskId] # tasks[res'.taskId] => AllSatisfied(res'.taskId)
          /\ ~AllSatisfied(res'.taskId) => (tasks' = tasks /\ NothingCreated)]_vars

\* executeTask refused a task whose only dependency names a missing task,
\* and on another occasion started a task whose dependency was satisfied.
C32_Witness ==
    /\ res.op = "executeTask"
    /\ ~res.forceExecution
    /\ ~res.result.success
    /\ res.taskId \in DOMAIN tasks
    /\ tasks[res.taskId].status = "not_started"
    /\ \E i \in 1..Len(tasks[res.taskId].dependencies) :
          tasks[res.taskId].dependencies[i].taskId \notin DOMAIN tasks
    /\ sessionSeq = 0

(***************************************************************************)
(* Deleting a session and what hangs below it.                             *)
(***************************************************************************)
\* The stored sessions below a session, by the stored parent links.
RECURSIVE DescendantsOf(_, _)
DescendantsOf(S, n) ==
    LET below == S \cup {id \in DOMAIN store : store[id].parentSessionId \in S}
    IN IF below = S \/ n = 0 THEN S ELSE DescendantsOf(below, n - 1)

Gone(id) == ~SessionStored(store', id) /\ ~CacheHas(sessions', id)

\* C33: a deleteSession(id) that returns leaves neither the session nor any
\* of its descendants in the store or in the cache, however many children a
\* session has.
C33_DeleteRemovesDescendants ==
    [][(OperationStep /\ res'.op = "deleteSession" /\ res'.outcome = "ok"
          /\ SessionStored(store, res'.id)) =>
          \A id \in DescendantsOf({res'.id}, Cardinality(DOMAIN store)) : Gone(id)]_vars

\* deleteSession returned for a session with two children, and one of the
\* children is still stored and cached under the parent that is gone.
C33_Witness ==
    /\ res.op = "deleteSession"
    /\ res.outcome = "ok"
    /\ ~SessionStored(store, res.id)
    /\ ~CacheHas(sessions, res.id)
    /\ \E id \in DOMAIN store :
          /\ store[id].parentSessionId = res.id
          /\ CacheHas(sessions, id)

(***************************************************************************)
(* executeTask and completeTask when a call inside them fails.             *)
(***************************************************************************)
\* C34: when executeTask returns success=false, the task's stored status is
\* what it was before the call.
C34_FailedExecuteKeepsStatus ==
    (res.op = "executeTask" /\ ~res.result.success /\ res.taskId \in DOMAIN tasks) =>
        tasks[res.taskId].status = res.before

\* executeTask returned success=false for a task that was not started, and
\* the task is stored as in progress.
C34_Witness ==
    /\ res.op = "executeTask"
    /\ ~res.result.success
    /\ res.before = "not_started"
    /\ res.taskId \in DOMAIN tasks
    /\ tasks[res.taskId].status = "in_progress"

\* C35: completeTask either leaves the task completed at 100 percent and its
\* session completed, and returns success=true, or changes neither and
\* returns success=false.
C35_CompleteTaskBothOrNeither ==
    [][(OperationStep /\ res'.op = "completeTask" /\ res'.taskId \in DOMAIN tasks) =>
          LET id == res'.taskId
              sid == tasks[id].sessionId
          IN \/ /\ res'.success
                /\ tasks'[id].status = "completed"
                /\ tasks'[id].completionPercentage = 100
                /\ sid # None => /\ SessionStored(store', sid)
                                 /\ store'[sid].state = "completed"
             \/ /\ ~res'.success
                /\ tasks' = tasks
                /\ store' = store
                /\ sessions' = sessions]_vars

\* completeTask returned success=false; the task is stored as completed
\* and its session is stored as active.
C35_Witness ==
    /\ res.op = "completeTask"
    /\ ~res.success
    /\ res.before = "in_progress"
    /\ res.taskId \in DOMAIN tasks
    /\ tasks[res.taskId].status = "completed"
    /\ tasks[res.taskId].sessionId # None
    /\ SessionStored(store, tasks[res.taskId].sessionId)
    /\ store[tasks[res.taskId].sessionId].state = "active"

(***************************************************************************)
(* The execution order as a list of all tasks.                             *)
(***************************************************************************)
\* C36: for an acyclic dependency graph the execution order holds every
\* task of the orchestration exactly once, the tasks that depend on a task
\* that does not exist included.
C36_OrderHoldsEveryTaskOnce ==
    (res.op = "getTaskExecutionOrder" /\ ~HasDirectedCycle(res.orchestrationId)) =>
        /\ Range(res.result) = TasksOf(res.orchestrationId)
        /\ Len(res.result) = Cardinality(TasksOf(res.orchestrationId))

\* The order of an acyclic graph holds a task with a dependency on a task
\* that is not stored and a task that has two dependencies.
C36_Witness ==
    /\ res.op = "getTaskExecutionOrder"
    /\ ~HasDirectedCycle(res.orchestrationId)
    /\ \E id \in Range(res.result) :
          \E k \in 1..Len(tasks[id].dependencies) :
              tasks[id].dependencies[k].taskId \notin DOMAIN tasks
    /\ \E id \in Range(res.result) : Len(tasks[id].dependencies) = 2

(***************************************************************************)
(* Whose backups a rotation removes.                                       *)
(***************************************************************************)
\* C37: the backup rotation performed for one record never deletes a backup
\* that belongs to another record.
C37_RotationKeepsOtherRecords ==
    [][res'.op \in {"save", "delete", "recover"} =>
          \A x \in backups \ backups' : x.id = res'.id]_vars

\* The recovery of one task file unlinked a copy of another task's file.
C37_Witness ==
    /\ res.op = "recover"
    /\ \E x \in res.unlinked : x.id # res.id /\ x.type = "recovery"
    /\ Cardinality({x \in backups : x.type = "recovery"}) = MAX_BACKUPS

(***************************************************************************)
(* getSessionChain and getSessionBreadcrumbs: the walk from a session up   *)
(* its parentSessionId links, one getSession per step.                     *)
(***************************************************************************)
WalkKinds == {"getSessionChain", "getSessionBreadcrumbs"}

\* What the walk puts in front of its result for the session it stands on.
PathEntry(kind, session) ==
    IF kind = "getSessionChain" THEN session
    ELSE [sessionId |-> session.id, type |-> session.type, focus |-> session.currentFocus]

\* The first getSession of the walk.
WalkStart(c, kind, sessionId) ==
    /\ calls[c].pc = "idle"
    /\ LET r == GetSessionOp(Registry, sessionId)
       IN /\ SetRegistry(r.R)
          /\ calls' = [calls EXCEPT ![c] =
                          IF r.found
                          THEN [pc |-> "walking", kind |-> kind, from |-> sessionId,
                                currentSession |-> sessionId, path |-> <<>>]
                          ELSE [pc |-> "returned", kind |-> kind, from |-> sessionId,
                                path |-> <<>>]]
    /\ res' = [op |-> kind, call |-> c]
    /\ UNCHANGED <<tasks, sessionSeq, now, disk, backups, config, thinking>>

\* One turn of the while loop: unshift the current session, then getSession
\* of its parent, or return when it has none or the parent is not found.
WalkStep(c) ==
    /\ calls[c].pc = "walking"
    /\ Len(calls[c].path) < MaxPath
    /\ LET current == CacheGet(sessions, calls[c].currentSession)
           path == <<PathEntry(calls[c].kind, current)>> \o calls[c].path
           r == GetSessionOp(Registry, current.parentSessionId)
       IN IF current.parentSessionId = None
          THEN /\ calls' = [calls EXCEPT ![c] = [pc |-> "returned", kind |-> @.kind,
                                                  from |-> @.from, path |-> path]]
               /\ UNCHANGED sessionVars
          ELSE /\ SetRegistry(r.R)
               /\ sessionSeq' = sessionSeq
               /\ calls' = [calls EXCEPT ![c] =
                               IF r.found
                               THEN [@ EXCEPT !.currentSession = current.parentSessionId,
                                              !.path = path]
                               ELSE [pc |-> "returned", kind |-> @.kind,
                                     from |-> @.from, path |-> path]]
    /\ res' = [op |-> calls[c].kind, call |-> c]
    /\ UNCHANGED <<tasks, now, disk, backups, config, thinking>>

\* The session files a registry may find in its store when it starts: one
\* per id, each naming any id, or none, as its parent.
StoredWithLinks(link) ==
    [i \in DOMAIN link |->
        ToStored(NewSession(i, [type |-> "planning", orchestrationId |-> "orch-1",
                                parentSessionId |-> link[i]], 1))]

InitStored ==
    /\ config = DefaultConfig
    /\ tasks = <<>>
    /\ sessions = <<>>
    /\ store \in {StoredWithLinks(link) : link \in [1..LinkSessions -> {None} \cup 1..LinkSessions]}
    /\ pending = <<>>
    /\ sessionSeq = LinkSessions
    /\ now = 1
    /\ res = NoResult
    /\ disk = <<>>
    /\ backups = {}
    /\ calls = [c \in CallIds |-> [pc |-> "idle"]]
    /\ thinking = NoThinking

WalkNext ==
    \/ \E kind \in WalkKinds, sessionId \in 1..LinkSessions : WalkStart(1, kind, sessionId)
    \/ WalkStep(1)

SpecWalk == InitStored /\ [][WalkNext]_vars

\* The ids of the sessions a path holds, first to last.
PathIds(call) ==
    [i \in 1..Len(call.path) |->
        IF call.kind = "getSessionChain" THEN call.path[i].id ELSE call.path[i].sessionId]

NoRepeats(q) == \A i, j \in 1..Len(q) : q[i] = q[j] => i = j

\* C38: getSessionChain and getSessionBreadcrumbs end for every set of stored
\* sessions, whatever the parentSessionId links are, with a path in which no
\* session appears twice: at every turn of the loop the path holds each
\* session at most once, hence never more entries than sessions are stored.
C38_WalkVisitsEachSessionOnce ==
    \A c \in CallIds :
        calls[c].pc \in {"walking", "returned"} =>
            /\ NoRepeats(PathIds(calls[c]))
            /\ Len(calls[c].path) <= Cardinality(DOMAIN store)

\* A walk over two sessions that name each other as parent has collected
\* the session it started from a second time and is still going.
C38_Witness ==
    /\ calls[1].pc = "walking"
    /\ store[1].parentSessionId = 2
    /\ store[2].parentSessionId = 1
    /\ calls[1].from = 1
    /\ PathIds(calls[1]) = <<1, 2, 1>>

(***************************************************************************)
(* Sequential thinking: SequentialThinkingTool with its current trace and  *)
(* its history, and the startThinking / addThinkingStep / completeThinking *)
(* methods of a session object.                                            *)
(***************************************************************************)
\* A ThinkingSession as createThinkingSession and startThinking build it.
NewTrace(id) ==
    [id |-> id, steps |-> <<>>, currentStep |-> 0, totalSteps |-> 1, state |-> "active"]

Max(a, b) == IF a >= b THEN a ELSE b

\* The parameters handed to the tool; a thoughtNumber of 0 fails the schema.
ThoughtParams ==
    [thoughtNumber : 0..MaxThoughts, totalThoughts : 1..MaxThoughts,
     nextThoughtNeeded : BOOLEAN, needsMoreThoughts : BOOLEAN]

\* ThinkingStepSchema.parse: both numbers at least 1.
ValidThought(params) == params.thoughtNumber >= 1 /\ params.totalThoughts >= 1

\* createThinkingSession: a fresh trace, put in the history.
CreateThinkingSession(T) ==
    LET id == T.created + 1
    IN [T EXCEPT !.created = id,
                 !.currentSession = id,
                 !.sessionHistory = [i \in DOMAIN @ \cup {id} |->
                                        IF i = id THEN NewTrace(id) ELSE @[i]]]

\* The tool's addThinkingStep: push on the current trace, whatever its state.
ToolAddThinkingStep(T, params) ==
    [T EXCEPT !.sessionHistory[T.currentSession] =
        [@ EXCEPT !.steps = Append(@, [stepNumber |-> params.thoughtNumber]),
                  !.currentStep = params.thoughtNumber,
                  !.totalSteps = Max(@, params.totalThoughts)]]

\* updateSessionState: completed when no further thought is asked for.
UpdateSessionState(T, params) ==
    IF ~params.nextThoughtNeeded /\ ~params.needsMoreThoughts
    THEN [T EXCEPT !.sessionHistory[T.currentSession].state = "completed"]
    ELSE T

\* execute, apart from the response text.
ExecuteOp(T, params) ==
    LET T1 == IF T.currentSession = None THEN CreateThinkingSession(T) ELSE T
    IN IF ~ValidThought(params) THEN [T |-> T, outcome |-> "error"]
       ELSE [T |-> UpdateSessionState(ToolAddThinkingStep(T1, params), params),
             outcome |-> "ok"]

\* The state of the tool's current trace, "none" without one.
CurrentState(T) ==
    IF T.currentSession = None THEN "none" ELSE T.sessionHistory[T.currentSession].state

ThinkingFrame == UNCHANGED <<tasks, sessionVars, now, disk, backups, config, calls>>

Execute(params) ==
    /\ thinking.currentSession = None => thinking.created < MaxTraces
    /\ thinking.currentSession # None =>
          Len(thinking.sessionHistory[thinking.currentSession].steps) < MaxSteps
    /\ LET r == ExecuteOp(thinking, params)
       IN /\ thinking' = r.T
          /\ res' = [op |-> "execute", outcome |-> r.outcome,
                     stateBefore |-> CurrentState(thinking),
                     trace |-> r.T.currentSession]
    /\ ThinkingFrame

\* startNewSession: the current trace is completed when active, then a fresh
\* one takes its place.
StartNewSession ==
    /\ thinking.created < MaxTraces
    /\ LET T1 == IF CurrentState(thinking) = "active"
                 THEN [thinking EXCEPT !.sessionHistory[thinking.currentSession].state = "completed"]
                 ELSE thinking
       IN thinking' = CreateThinkingSession(T1)
    /\ res' = [op |-> "startNewSession", stateBefore |-> CurrentState(thinking)]
    /\ ThinkingFrame

\* clearHistory.
ClearHistory ==
    /\ thinking.currentSession # None
    /\ thinking' = [thinking EXCEPT !.sessionHistory = <<>>, !.currentSession = None]
    /\ res' = [op |-> "clearHistory"]
    /\ ThinkingFrame

\* OrchestrationSession.startThinking: a fresh trace replaces the context's.
StartThinking ==
    /\ thinking.started < MaxTraces
    /\ thinking' = [thinking EXCEPT !.started = @ + 1,
                                    !.sequentialThinking = NewTrace(thinking.started + 1)]
    /\ res' = [op |-> "startThinking"]
    /\ ThinkingFrame

\* OrchestrationSession.addThinkingStep: throws without a trace, pushes
\* otherwise.
AddThinkingStep(step) ==
    /\ thinking.sequentialThinking # NoTrace =>
          Len(thinking.sequentialThinking.steps) < MaxSteps
    /\ IF thinking.sequentialThinking = NoTrace
       THEN /\ thinking' = thinking
            /\ res' = [op |-> "addThinkingStep", outcome |-> "error", stateBefore |-> "none"]
       ELSE /\ thinking' = [thinking EXCEPT !.sequentialThinking =
                                [@ EXCEPT !.steps = Append(@, step),
                                          !.currentStep = Len(thinking.sequentialThinking.steps) + 1]]
            /\ res' = [op |-> "addThinkingStep", outcome |-> "ok",
                       stateBefore |-> thinking.sequentialThinking.state]
    /\ ThinkingFrame

\* OrchestrationSession.completeThinking.
CompleteThinking ==
    /\ IF thinking.sequentialThinking = NoTrace
       THEN /\ thinking' = thinking
            /\ res' = [op |-> "completeThinking", outcome |-> "error"]
       ELSE /\ thinking' = [thinking EXCEPT !.sequentialThinking.state = "completed"]
            /\ res' = [op |-> "completeThinking", outcome |-> "ok"]
    /\ ThinkingFrame

ThinkingNext ==
    \/ \E params \in ThoughtParams : Execute(params)
    \/ StartNewSession
    \/ ClearHistory
    \/ StartThinking
    \/ \E n \in 1..MaxThoughts : AddThinkingStep([stepNumber |-> n])
    \/ CompleteThinking

SpecThinking == InitEmpty /\ [][ThinkingNext]_vars

\* The tool's trace id keeps the steps it has.
ToolTraceKept(id) ==
    (id \in DOMAIN thinking'.sessionHistory /\ res'.op # "clearHistory")
        => thinking'.sessionHistory[id].steps = thinking.sessionHistory[id].steps

\* C39: once a thinking trace's state is completed no further step is
\* appended to it; a later step is rejected or goes to a new trace.
C39_CompletedTraceGetsNoStep ==
    [][/\ \A id \in DOMAIN thinking.sessionHistory :
             thinking.sessionHistory[id].state = "completed" => ToolTraceKept(id)
       /\ (/\ thinking.sequentialThinking # NoTrace
           /\ thinking.sequentialThinking.state = "completed"
           /\ thinking'.sequentialThinking.id = thinking.sequentialThinking.id)
              => thinking'.sequentialThinking.steps = thinking.sequentialThinking.steps]_vars

\* execute was called while the tool's current trace was completed, and the
\* step went onto that trace.
C39_Witness ==
    /\ res.op = "execute"
    /\ res.outcome = "ok"
    /\ res.stateBefore = "completed"
    /\ Len(thinking.sessionHistory[res.trace].steps) >= 2

====
